---- MODULE Spec2Model ----
(***************************************************************************)
(* A model of the monthly simulation engine of the real-estate calculator: *)
(* the amortization engine (core/mortgage_utils.py and its copies), the    *)
(* capital-gains rule (core/tax_utils.py), and the simulators of           *)
(* core/homeownership_simulation.py and core/rental_simulation.py.  A run  *)
(* is one call of one function, followed step by step through its loop.   *)
(*                                                                         *)
(* Numbers.  The program computes in Python floats, so every arithmetic    *)
(* operation rounds its exact result to the nearest representable number.  *)
(* The model keeps that: a number is a binary floating-point value         *)
(* [m |-> mantissa, e |-> exponent] standing for m * 2^e, with MantBits    *)
(* bits of mantissa (the program has 53), and FAdd, FSub, FMul, FDiv round *)
(* to nearest, ties to even, exactly as IEEE-754 does.  Equality of two    *)
(* computed numbers is therefore something a run can refute, as it is in   *)
(* the program.                                                            *)
(***************************************************************************)
EXTENDS Integers, Sequences, FiniteSets, TLC

\* Bits of mantissa of the model's floating-point numbers.
MantBits == 24

\* A mantissa is multiplied in two limbs of HalfBits and MantBits - HalfBits
\* bits so that no intermediate product leaves the 32-bit integers of TLC.
HalfBits == MantBits \div 2

Abs(n) == IF n < 0 THEN -n ELSE n

Sign(n) == IF n < 0 THEN -1 ELSE 1

\* Number of bits of a >= 1: the k with 2^(k-1) <= a < 2^k.
RECURSIVE BitLen(_)
BitLen(a) == IF a < 2 THEN 1 ELSE 1 + BitLen(a \div 2)

FZero == [m |-> 0, e |-> 0]

\* The float nearest to n * 2^e (round to nearest, ties to even).
Norm(n, e) ==
  IF n = 0 THEN FZero
  ELSE LET a == Abs(n)
           k == BitLen(a)
       IN IF k <= MantBits
          THEN [m |-> n * 2^(MantBits - k), e |-> e - (MantBits - k)]
          ELSE LET sh   == k - MantBits
                   q    == a \div 2^sh
                   r    == a % 2^sh
                   half == 2^(sh - 1)
                   up   == (r > half) \/ (r = half /\ q % 2 = 1)
                   q1   == IF up THEN q + 1 ELSE q
               IN IF q1 = 2^MantBits
                  THEN [m |-> Sign(n) * 2^(MantBits - 1), e |-> e + sh + 1]
                  ELSE [m |-> Sign(n) * q1, e |-> e + sh]

\* An integer literal of the program as a float.
F(n) == Norm(n, 0)

FNeg(x) == [m |-> -(x.m), e |-> x.e]

FAbs(x) == [m |-> Abs(x.m), e |-> x.e]

\* big + small for big.e >= small.e, rounded.  Up to three bits of shift the
\* sum is formed exactly; beyond that the small operand is cut to a quarter
\* of big's last place and the bits cut off are kept as one sticky bit.
AddAligned(big, small) ==
  LET d == big.e - small.e
  IN IF d <= 3
     THEN Norm(big.m * 2^d + small.m, small.e)
     ELSE LET a   == Abs(small.m)
              cut == d - 2
              s2  == IF cut >= MantBits THEN 0 ELSE a \div 2^cut
              st  == IF cut >= MantBits \/ a % 2^cut /= 0 THEN 1 ELSE 0
          IN Norm(big.m * 8 + Sign(small.m) * (2 * s2 + st), big.e - 3)

\* x + y, rounded.
FAdd(x, y) ==
  IF x.m = 0 THEN y
  ELSE IF y.m = 0 THEN x
  ELSE IF x.e >= y.e THEN AddAligned(x, y) ELSE AddAligned(y, x)

FSub(x, y) == FAdd(x, FNeg(y))

\* x * y, rounded: the double-width product is H * 2^(2*HalfBits) + L; its
\* top bits, then two bits of L and a sticky bit for the rest, are rounded.
FMul(x, y) ==
  IF x.m = 0 \/ y.m = 0 THEN FZero
  ELSE LET B    == 2^HalfBits
           a    == Abs(x.m)
           b    == Abs(y.m)
           a1   == a \div B
           a0   == a % B
           b1   == b \div B
           b0   == b % B
           mid  == a1 * b0 + a0 * b1
           low  == (mid % B) * B + a0 * b0
           L    == low % (B * B)
           H    == a1 * b1 + (mid \div B) + (low \div (B * B))
           Q4   == (B * B) \div 4
           st   == IF L % Q4 /= 0 THEN 1 ELSE 0
       IN Norm(Sign(x.m) * Sign(y.m) * (H * 8 + (L \div Q4) * 2 + st),
               x.e + y.e + 2 * HalfBits - 3)

\* <<floor(r * 2^k / b), (r * 2^k) % b>> for 0 <= r < b, by long division
\* in chunks of 30 - MantBits bits.
RECURSIVE DivFrac(_, _, _)
DivFrac(r, b, k) ==
  LET s == 30 - MantBits
  IN IF k <= s
     THEN <<(r * 2^k) \div b, (r * 2^k) % b>>
     ELSE LET t == r * 2^s
              d == DivFrac(t % b, b, k - s)
          IN <<(t \div b) * 2^(k - s) + d[1], d[2]>>

\* x / y for y /= 0, rounded; the last bit of the quotient is sticky.
FDiv(x, y) ==
  IF x.m = 0 THEN FZero
  ELSE LET a == Abs(x.m)
           b == Abs(y.m)
           k == MantBits + 2
           d == DivFrac(a % b, b, k)
           q == (a \div b) * 2^k + d[1]
           s == IF d[2] = 0 THEN 0 ELSE 1
       IN Norm(Sign(x.m) * Sign(y.m) * (2 * q + s), x.e - y.e - k - 1)

FLt(x, y) == FSub(x, y).m < 0

FLe(x, y) == FSub(x, y).m <= 0

FMax(x, y) == IF FLt(x, y) THEN y ELSE x

\* x ** n for a whole n >= 0, by binary powering.  Every product rounds, so
\* the value is the library's pow to within a few units in the last place.
RECURSIVE FPow(_, _)
FPow(x, n) ==
  IF n = 0 THEN F(1)
  ELSE IF n = 1 \/ x.m = 0 THEN x
  ELSE LET half == FPow(x, n \div 2)
       IN  IF half.m = 0 THEN half
           ELSE IF n % 2 = 0 THEN FMul(half, half)
           ELSE FMul(FMul(half, half), x)

\* numpy's not-a-number.
NaN == [nan |-> TRUE]

\* acc + xs[lo] + ... + xs[hi], left to right.  The items are added half by
\* half, the total of the first half being known before the second is
\* added to it; a total that is not a number stays so.
RECURSIVE FSumFrom(_, _, _, _)
FSumFrom(acc, xs, lo, hi) ==
  IF lo > hi THEN acc
  ELSE IF lo = hi THEN FAdd(acc, xs[lo])
  ELSE LET mid  == (lo + hi) \div 2
           left == FSumFrom(acc, xs, lo, mid)
       IN IF left = NaN THEN NaN ELSE FSumFrom(left, xs, mid + 1, hi)

\* sum(xs) of Python: 0 + xs[1] + xs[2] + ..., left to right.
FSum(xs) == FSumFrom(FZero, xs, 1, Len(xs))

\* A decimal literal n/d of the program, such as 0.065 = Dec(65, 1000).
Dec(n, d) == FDiv(F(n), F(d))

\* Largest horizon and mortgage term, in years, that a run is given.
MaxYears == 2

MonthsPerYear == 12

\* What a call hands back: a value, or the exception it raised.
Return(v) == [raised |-> "none", value |-> v]

Raise(e) == [raised |-> e, value |-> <<>>]

(***************************************************************************)
(* core/mortgage_utils.py: the amortization engine.  The two simulation    *)
(* modules carry their own copies of both functions, the same line for     *)
(* line but for int(years * 12), which is years * 12 for an integer term.  *)
(***************************************************************************)

\* num_payments = years * 12
NumPayments_short(years) == years * MonthsPerYear - 1

NumPayments(years) == years * MonthsPerYear

\* (1 + monthly_rate) ** num_payments, as calculate_monthly_payment forms it.
Growth_extra_period(monthly_rate, num_payments) ==
  FPow(FAdd(F(1), monthly_rate), num_payments + 1)

Growth(monthly_rate, num_payments) == FPow(FAdd(F(1), monthly_rate), num_payments)

\* The zero-rate branch: principal / (years * 12).
ZeroRatePayment_per_year(principal, years) == FDiv(principal, F(years))

ZeroRatePayment(principal, years) == FDiv(principal, F(years * MonthsPerYear))

\* Lines 15-17: the annuity formula, written in stages so that the growth
\* factor and the denominator are each computed once.  Python raises
\* ZeroDivisionError when the denominator is 0.
PaymentOver(principal, monthly_rate, growth, denominator) ==
  IF denominator.m = 0
  THEN Raise("ZeroDivisionError")
  ELSE Return(FDiv(FMul(principal, FMul(monthly_rate, growth)), denominator))

PaymentFromGrowth(principal, monthly_rate, growth) ==
  PaymentOver(principal, monthly_rate, growth, FSub(growth, F(1)))

PaymentAtRate(principal, monthly_rate, num_payments) ==
  PaymentFromGrowth(principal, monthly_rate, Growth(monthly_rate, num_payments))

calculate_monthly_payment(principal, annual_rate, years) ==
  IF annual_rate.m = 0
  THEN IF years * MonthsPerYear = 0
       THEN Raise("ZeroDivisionError")
       ELSE Return(ZeroRatePayment(principal, years))
  ELSE PaymentAtRate(principal, FDiv(annual_rate, F(MonthsPerYear)),
                     years * MonthsPerYear)

\* The interest charged in one month on the balance carried into it.
InterestPayment(bal, monthly_rate) == FMul(bal, monthly_rate)

\* The part of the payment that pays the loan down.
PrincipalPayment_whole_payment(payment, interest_payment) == payment

PrincipalPayment(payment, interest_payment) == FSub(payment, interest_payment)

\* The balance carried out of a month, before it is clamped for the record.
BalanceAfter(bal, principal_payment) == FSub(bal, principal_payment)

\* The balance a schedule entry records: max(0, balance).
RecordedBalance_unclamped(bal) == bal

RecordedBalance(bal) == FMax(FZero, bal)

\* Lines 37-43: the entry appended for `mon`, with the running balance
\* carried into the next pass.
AmortEntry(payment, mon, interest_payment, principal_payment, new_balance) ==
  [entry   |-> [month     |-> mon,
                payment   |-> payment,
                principal |-> principal_payment,
                interest  |-> interest_payment,
                balance   |-> RecordedBalance(new_balance)],
   balance |-> new_balance]

AmortPrincipal(bal, payment, mon, interest_payment, principal_payment) ==
  AmortEntry(payment, mon, interest_payment, principal_payment,
             BalanceAfter(bal, principal_payment))

AmortInterest(bal, payment, mon, interest_payment) ==
  AmortPrincipal(bal, payment, mon, interest_payment,
                 PrincipalPayment(payment, interest_payment))

\* One pass of the schedule loop (lines 33-43), in the order the code binds
\* its locals: the entry appended and the running balance.
AmortStep(bal, payment, monthly_rate, mon) ==
  AmortInterest(bal, payment, mon, InterestPayment(bal, monthly_rate))

(***************************************************************************)
(* core/tax_utils.py                                                       *)
(***************************************************************************)

\* holding_period_years < 1
IsShortTerm_inclusive(holding_period_years) == FLe(holding_period_years, F(1))

IsShortTerm(holding_period_years) == FLt(holding_period_years, F(1))

calculate_capital_gains_tax(gain, holding_period_years, tax_rate_short, tax_rate_long) ==
  IF FLe(gain, FZero) THEN FZero
  ELSE IF IsShortTerm(holding_period_years)
       THEN FMul(gain, tax_rate_short)
       ELSE FMul(gain, tax_rate_long)

(***************************************************************************)
(* core/homeownership_simulation.py and core/rental_simulation.py          *)
(***************************************************************************)

\* Newton steps taken for a twelfth root; three already reach the last place
\* for a base between 1 and 1.1.
NewtonSteps == 4

\* x ** (1/12) by Newton's iteration y <- (11 y + x / y^11) / 12.
RECURSIVE Root12Iter(_, _, _)
Root12Iter(x, y, steps) ==
  IF steps = 0 \/ y.m = 0 THEN y
  ELSE Root12Iter(x,
                  FDiv(FAdd(FMul(F(11), y), FDiv(x, FPow(y, 11))), F(12)),
                  steps - 1)

Root12(x) ==
  Root12Iter(x, FAdd(F(1), FDiv(FSub(x, F(1)), F(12))), NewtonSteps)

\* x ** (k / 12), the growth factor after k of the twelve months of a year:
\* the whole years by powering, the odd months by the twelfth root.  The
\* value is the library's pow to within a few units in the last place.
FPowTwelfths(x, k) ==
  IF k % MonthsPerYear = 0 THEN FPow(x, k \div MonthsPerYear)
  ELSE FMul(FPow(x, k \div MonthsPerYear), FPow(Root12(x), k % MonthsPerYear))

\* The column `f` of a list of records.
Column(rows, f) == [i \in 1..Len(rows) |-> rows[i][f]]

\* The builtin sum over a list of Python floats depends on the interpreter
\* that runs the program: before Python 3.12 it adds left to right
\* ("sequential"), from 3.12 on it adds with Neumaier's compensation
\* ("compensated": the first item is added to the start value 0 plainly, the
\* correction is added at the end when it is not 0).  A list that starts
\* with a numpy float is added left to right by every interpreter.
VARIABLE sum_of_floats

NeumaierStep(f, c, x, t) ==
  [f |-> t,
   c |-> FAdd(c, IF FLe(FAbs(x), FAbs(f))
                 THEN FAdd(FSub(f, t), x)
                 ELSE FAdd(FSub(x, t), f))]

NeumaierAdd(acc, x) == NeumaierStep(acc.f, acc.c, x, FAdd(acc.f, x))

\* The items xs[lo] .. xs[hi] added to the running total acc, half by half
\* like FSumFrom.
RECURSIVE NeumaierFrom(_, _, _, _)
NeumaierFrom(acc, xs, lo, hi) ==
  IF lo > hi THEN acc
  ELSE IF lo = hi THEN NeumaierAdd(acc, xs[lo])
  ELSE LET mid  == (lo + hi) \div 2
           left == NeumaierFrom(acc, xs, lo, mid)
       IN IF left.f = NaN THEN left ELSE NeumaierFrom(left, xs, mid + 1, hi)

Neumaier(xs) == NeumaierFrom([f |-> xs[1], c |-> FZero], xs, 2, Len(xs))

NeumaierTotal(acc) == IF acc.c.m /= 0 THEN FAdd(acc.f, acc.c) ELSE acc.f

SumOfFloats(xs) ==
  IF sum_of_floats = "compensated" /\ xs /= <<>>
  THEN NeumaierTotal(Neumaier(xs))
  ELSE FSum(xs)

\* sum([d[f] for d in monthly_data]) + x if monthly_data else x, over a
\* column of numpy floats (every sum that has the mortgage interest in it).
Cumulative_restarts(monthly_data, f, x) == x

Cumulative(monthly_data, f, x) ==
  IF monthly_data /= <<>> THEN FAdd(FSum(Column(monthly_data, f)), x) ELSE x

\* The same over a column of Python floats (rental income, dividends).
CumulativeOfFloats(monthly_data, f, x) ==
  IF monthly_data /= <<>>
  THEN FAdd(SumOfFloats(Column(monthly_data, f)), x)
  ELSE x

\* A mutated lookup: past the end of the schedule the last payment goes on.
MortgageOf_keeps_paying(amortization, mon) ==
  IF amortization = <<>>
  THEN [payment |-> FZero, principal |-> FZero, interest |-> FZero,
        balance |-> FZero]
  ELSE LET entry == IF mon <= Len(amortization) THEN amortization[mon]
                    ELSE amortization[Len(amortization)]
       IN  [payment |-> entry.payment, principal |-> entry.principal,
            interest |-> entry.interest, balance |-> entry.balance]

\* The amortization entry a simulator reads for `month`, zeros past the end
\* of the schedule.
MortgageOf(amortization, mon) ==
  IF mon <= Len(amortization)
  THEN [payment |-> amortization[mon].payment,
        principal |-> amortization[mon].principal,
        interest |-> amortization[mon].interest,
        balance |-> amortization[mon].balance]
  ELSE [payment |-> FZero, principal |-> FZero, interest |-> FZero,
        balance |-> FZero]

\* A mutated property: it appreciates at the return of the stock market.
PropertyValue_stock_growth(p, mon) ==
  FMul(p.purchase_price, FPowTwelfths(FAdd(F(1), p.stock_return_rate), mon - 1))

\* property_value = purchase_price * (1 + appreciation_rate) ** years_elapsed
PropertyValue(p, mon) ==
  FMul(p.purchase_price, FPowTwelfths(FAdd(F(1), p.appreciation_rate), mon - 1))

\* (property_value * rate) / 12
MonthlyShare(property_value, rate) == FDiv(FMul(property_value, rate), F(12))

\* One pass of a simulator's month loop is written in stages, each handing
\* the locals it has computed to the next, in the order the code binds them.

\* A mutated record: the net proceeds are not reduced by the selling costs.
HomeRecord_before_selling(p, mortgage, monthly_data, mon, property_value, property_tax_monthly, maintenance_monthly, monthly_tax_benefit, total_costs_before_tax, true_monthly_cost, unrecoverable) ==
  [month |-> mon,
   year |-> (mon - 1) \div 12 + 1,
   property_value |-> property_value,
   mortgage_payment |-> mortgage.payment,
   principal_payment |-> mortgage.principal,
   interest_payment |-> mortgage.interest,
   remaining_balance |-> mortgage.balance,
   property_tax_monthly |-> property_tax_monthly,
   hoa |-> p.hoa_monthly,
   insurance |-> p.insurance_monthly,
   maintenance |-> maintenance_monthly,
   total_costs_before_tax |-> total_costs_before_tax,
   monthly_tax_benefit |-> monthly_tax_benefit,
   true_monthly_cost |-> true_monthly_cost,
   unrecoverable |-> unrecoverable,
   cumulative_unrecoverable |->
     Cumulative(monthly_data, "unrecoverable", unrecoverable),
   cumulative_tax_benefits |->
     Cumulative(monthly_data, "monthly_tax_benefit", monthly_tax_benefit),
   cumulative_true_cost |->
     Cumulative(monthly_data, "true_monthly_cost", true_monthly_cost),
   equity |-> FSub(property_value, mortgage.balance),
   net_proceeds |-> FSub(property_value, mortgage.balance)]

\* simulate_homeownership, lines 140-163: the record appended.
HomeRecord(p, mortgage, monthly_data, mon, property_value, property_tax_monthly, maintenance_monthly, monthly_tax_benefit, total_costs_before_tax, true_monthly_cost, unrecoverable) ==
  [month |-> mon,
   year |-> (mon - 1) \div 12 + 1,
   property_value |-> property_value,
   mortgage_payment |-> mortgage.payment,
   principal_payment |-> mortgage.principal,
   interest_payment |-> mortgage.interest,
   remaining_balance |-> mortgage.balance,
   property_tax_monthly |-> property_tax_monthly,
   hoa |-> p.hoa_monthly,
   insurance |-> p.insurance_monthly,
   maintenance |-> maintenance_monthly,
   total_costs_before_tax |-> total_costs_before_tax,
   monthly_tax_benefit |-> monthly_tax_benefit,
   true_monthly_cost |-> true_monthly_cost,
   unrecoverable |-> unrecoverable,
   cumulative_unrecoverable |->
     Cumulative(monthly_data, "unrecoverable", unrecoverable),
   cumulative_tax_benefits |->
     Cumulative(monthly_data, "monthly_tax_benefit", monthly_tax_benefit),
   cumulative_true_cost |->
     Cumulative(monthly_data, "true_monthly_cost", true_monthly_cost),
   equity |-> FSub(property_value, mortgage.balance),
   net_proceeds |->
     FSub(FSub(property_value, mortgage.balance),
          FMul(property_value, p.selling_cost_pct))]

\* A mutated pass: the closing costs are charged in every month.
HomeTrueCost_closing_every_month(p, mortgage, monthly_data, mon, property_value, property_tax_monthly, maintenance_monthly, monthly_tax_benefit, total_costs_before_tax, recurring) ==
  HomeRecord(p, mortgage, monthly_data, mon, property_value, property_tax_monthly,
             maintenance_monthly, monthly_tax_benefit, total_costs_before_tax,
             FSub(total_costs_before_tax, monthly_tax_benefit),
             FAdd(recurring, FMul(p.purchase_price, p.closing_costs_pct)))

\* Lines 122-127: the true cost, and the unrecoverable cost, which carries
\* the closing costs in month 1.
HomeTrueCost(p, mortgage, monthly_data, mon, property_value, property_tax_monthly, maintenance_monthly, monthly_tax_benefit, total_costs_before_tax, recurring) ==
  HomeRecord(p, mortgage, monthly_data, mon, property_value, property_tax_monthly,
             maintenance_monthly, monthly_tax_benefit, total_costs_before_tax,
             FSub(total_costs_before_tax, monthly_tax_benefit),
             IF mon = 1
             THEN FAdd(recurring, FMul(p.purchase_price, p.closing_costs_pct))
             ELSE recurring)

\* Lines 116-125: the tax benefit and the two sums of costs.
HomeCosts(p, mortgage, monthly_data, mon, property_value, property_tax_monthly, maintenance_monthly) ==
  HomeTrueCost(p, mortgage, monthly_data, mon, property_value,
               property_tax_monthly, maintenance_monthly,
               FMul(FAdd(mortgage.interest, property_tax_monthly), p.tax_bracket),
               FAdd(FAdd(FAdd(FAdd(mortgage.payment, property_tax_monthly),
                              p.insurance_monthly), p.hoa_monthly),
                    maintenance_monthly),
               FAdd(FAdd(FAdd(FAdd(mortgage.interest, property_tax_monthly),
                              p.insurance_monthly), p.hoa_monthly),
                    maintenance_monthly))

\* Lines 110-111: the monthly property tax and maintenance.
HomeShares(p, mortgage, monthly_data, mon, property_value) ==
  HomeCosts(p, mortgage, monthly_data, mon, property_value,
            MonthlyShare(property_value, p.property_tax_rate),
            MonthlyShare(property_value, p.maintenance_rate))

\* simulate_homeownership, lines 165-192: df.iloc[-1] raises IndexError on
\* an empty frame; otherwise the summary is built from the last record.
HomeResult(p, monthly_data) ==
  IF monthly_data = <<>> THEN Raise("IndexError")
  ELSE
    LET last == monthly_data[Len(monthly_data)]
        final_property_value == last.property_value
        final_remaining_balance == last.remaining_balance
        final_selling_costs == FMul(final_property_value, p.selling_cost_pct)
    IN  Return(
          [monthly_df |-> monthly_data,
           summary |->
             [initial_payment |->
                FAdd(FMul(p.purchase_price, p.down_payment_pct),
                     FMul(p.purchase_price, p.closing_costs_pct)),
              final_property_value |-> final_property_value,
              final_equity |->
                FSub(final_property_value, final_remaining_balance),
              selling_costs |-> final_selling_costs,
              final_net_proceeds |->
                FSub(FSub(final_property_value, final_remaining_balance),
                     final_selling_costs),
              total_unrecoverable_costs |-> last.cumulative_unrecoverable,
              total_tax_benefits |-> last.cumulative_tax_benefits,
              total_true_cost |->
                FAdd(last.cumulative_true_cost, final_selling_costs),
              total_principal_paid |->
                FSum(Column(monthly_data, "principal_payment"))]])

\* monthly_contribution = homeownership_cost - current_rent
Contribution_whole_cost(homeownership_cost, current_rent) == homeownership_cost

Contribution(homeownership_cost, current_rent) ==
  FSub(homeownership_cost, current_rent)

\* A mutated tax event: the year's dividends are not reset after the tax.
PortfolioTax_keeps_annual(p, st, tax_event, portfolio_value, monthly_dividend, annual_dividends, dividend_tax) ==
  [portfolio_value |-> portfolio_value,
   monthly_dividend |-> monthly_dividend,
   dividend_tax |-> dividend_tax,
   annual_dividends |-> annual_dividends,
   cumulative_dividends |-> FAdd(st.cumulative_dividends, monthly_dividend),
   cumulative_dividend_tax |->
     IF tax_event THEN FAdd(st.cumulative_dividend_tax, dividend_tax)
     ELSE st.cumulative_dividend_tax]

\* The portfolio part of a month, shared by simulate_rent_and_invest (lines
\* 243-264) and rental_simulation.simulate_stock_investment (lines 240-261):
\* growth, contribution, dividend, and the tax event of a year's last month.
PortfolioTax(p, st, tax_event, portfolio_value, monthly_dividend, annual_dividends, dividend_tax) ==
  [portfolio_value |-> portfolio_value,
   monthly_dividend |-> monthly_dividend,
   dividend_tax |-> dividend_tax,
   annual_dividends |-> IF tax_event THEN FZero ELSE annual_dividends,
   cumulative_dividends |-> FAdd(st.cumulative_dividends, monthly_dividend),
   cumulative_dividend_tax |->
     IF tax_event THEN FAdd(st.cumulative_dividend_tax, dividend_tax)
     ELSE st.cumulative_dividend_tax]

PortfolioYear(p, st, tax_event, portfolio_value, monthly_dividend, annual_dividends) ==
  PortfolioTax(p, st, tax_event, portfolio_value, monthly_dividend,
               annual_dividends,
               IF tax_event THEN FMul(annual_dividends, p.tax_bracket)
               ELSE FZero)

PortfolioDividend(p, st, mon, portfolio_value, monthly_dividend) ==
  PortfolioYear(p, st, ((mon - 1) % 12) + 1 = 12, portfolio_value,
                monthly_dividend, FAdd(st.annual_dividends, monthly_dividend))

PortfolioGrowth(p, st, mon, portfolio_value) ==
  PortfolioDividend(p, st, mon, portfolio_value,
                    FMul(portfolio_value, FDiv(p.dividend_yield, F(12))))

\* A mutated pass: the contribution is added before the month's growth.
PortfolioMonth_contribution_first(p, st, monthly_contribution, mon) ==
  PortfolioGrowth(p, st, mon,
                  FMul(FAdd(st.portfolio_value, monthly_contribution),
                       FAdd(F(1), FDiv(p.stock_return_rate, F(12)))))

PortfolioMonth(p, st, monthly_contribution, mon) ==
  PortfolioGrowth(p, st, mon,
                  FAdd(FMul(st.portfolio_value,
                            FAdd(F(1), FDiv(p.stock_return_rate, F(12)))),
                       monthly_contribution))

\* simulate_rent_and_invest, lines 266-289: the record appended, and the
\* locals after the pass.
RentInvestRecord(monthly_data, mon, current_rent, cumulative_rent, monthly_contribution, pf) ==
  [row |->
     [month |-> mon,
      year |-> (mon - 1) \div 12 + 1,
      portfolio_value |-> pf.portfolio_value,
      monthly_rent |-> current_rent,
      cumulative_rent |-> cumulative_rent,
      monthly_contribution |-> monthly_contribution,
      monthly_dividend |-> pf.monthly_dividend,
      monthly_operating_income |-> pf.monthly_dividend,
      cumulative_operating_income |->
        CumulativeOfFloats(monthly_data, "monthly_operating_income", pf.monthly_dividend),
      dividend_tax |-> pf.dividend_tax,
      cumulative_dividend_tax |-> pf.cumulative_dividend_tax,
      cumulative_cost |-> FAdd(cumulative_rent, pf.cumulative_dividend_tax),
      net_proceeds |-> pf.portfolio_value],
   portfolio_value |-> pf.portfolio_value,
   cumulative_rent |-> cumulative_rent,
   cumulative_dividends |-> pf.cumulative_dividends,
   cumulative_dividend_tax |-> pf.cumulative_dividend_tax,
   annual_dividends |-> pf.annual_dividends]

\* Lines 243-264.
RentInvestPortfolio(p, st, monthly_data, mon, current_rent, cumulative_rent, monthly_contribution) ==
  RentInvestRecord(monthly_data, mon, current_rent, cumulative_rent,
                   monthly_contribution,
                   PortfolioMonth(p, st, monthly_contribution, mon))

\* Lines 237-241.
RentInvestRent(p, costs, st, monthly_data, mon, current_rent) ==
  RentInvestPortfolio(p, st, monthly_data, mon, current_rent,
                      FAdd(st.cumulative_rent, current_rent),
                      Contribution(costs[mon], current_rent))

\* simulate_rent_and_invest, one pass of the month loop (the cost of the
\* month is there: mon <= Len(costs)).  Line 236: the rent rises by whole
\* years.
RentInvestMonth(p, costs, st, monthly_data, mon) ==
  RentInvestRent(p, costs, st, monthly_data, mon,
                 FMul(p.monthly_rent,
                      FPow(FAdd(F(1), p.rent_increase_rate), (mon - 1) \div 12)))

\* simulate_rent_and_invest, lines 291-307.
RentInvestResult(p, st, monthly_data) ==
  IF monthly_data = <<>> THEN Raise("IndexError")
  ELSE
    LET last == monthly_data[Len(monthly_data)]
    IN  Return(
          [monthly_df |-> monthly_data,
           summary |->
             [initial_payment |-> p.initial_investment,
              final_portfolio_value |-> last.portfolio_value,
              total_contributions |->
                FSum(Column(monthly_data, "monthly_contribution")),
              total_rent_paid |-> last.cumulative_rent,
              total_dividends |-> st.cumulative_dividends,
              total_dividend_tax |-> st.cumulative_dividend_tax,
              total_cost |-> last.cumulative_cost,
              final_net_proceeds |-> last.net_proceeds]])

\* simulate_rental_property, lines 143-173: the record appended.
RentalRecord(p, mortgage, monthly_data, mon, property_value, property_tax_monthly, maintenance_monthly, unrecoverable, monthly_tax_benefit, rental_income, true_cost) ==
  [month |-> mon,
   year |-> (mon - 1) \div 12 + 1,
   property_value |-> property_value,
   mortgage_payment |-> mortgage.payment,
   principal_payment |-> mortgage.principal,
   interest_payment |-> mortgage.interest,
   remaining_balance |-> mortgage.balance,
   property_tax_monthly |-> property_tax_monthly,
   hoa |-> p.hoa_monthly,
   insurance |-> p.insurance_monthly,
   maintenance |-> maintenance_monthly,
   unrecoverable |-> unrecoverable,
   monthly_tax_benefit |-> monthly_tax_benefit,
   rental_income |-> rental_income,
   true_cost |-> true_cost,
   cumulative_true_cost |-> Cumulative(monthly_data, "true_cost", true_cost),
   monthly_operating_income |-> rental_income,
   cumulative_operating_income |->
     CumulativeOfFloats(monthly_data, "monthly_operating_income", rental_income),
   net_proceeds |-> FSub(property_value, mortgage.balance)]

\* Line 133: true_cost = unrecoverable - rental_income - monthly_tax_benefit
RentalTrueCost(p, mortgage, monthly_data, mon, property_value, property_tax_monthly, maintenance_monthly, unrecoverable, monthly_tax_benefit, rental_income) ==
  RentalRecord(p, mortgage, monthly_data, mon, property_value,
               property_tax_monthly, maintenance_monthly, unrecoverable,
               monthly_tax_benefit, rental_income,
               FSub(FSub(unrecoverable, rental_income), monthly_tax_benefit))

\* Lines 122-130: the closing costs of month 1, the tax benefit, the rent
\* less vacancy.
RentalIncome(p, mortgage, monthly_data, mon, property_value, property_tax_monthly, maintenance_monthly, recurring) ==
  RentalTrueCost(p, mortgage, monthly_data, mon, property_value,
                 property_tax_monthly, maintenance_monthly,
                 IF mon = 1
                 THEN FAdd(recurring, FMul(p.purchase_price, p.closing_costs_pct))
                 ELSE recurring,
                 FMul(FAdd(mortgage.interest, property_tax_monthly), p.tax_bracket),
                 FMul(p.monthly_rent, FSub(F(1), p.vacancy_rate)))

\* Line 119.
RentalCosts(p, mortgage, monthly_data, mon, property_value, property_tax_monthly, maintenance_monthly) ==
  RentalIncome(p, mortgage, monthly_data, mon, property_value,
               property_tax_monthly, maintenance_monthly,
               FAdd(FAdd(FAdd(FAdd(mortgage.interest, property_tax_monthly),
                              p.hoa_monthly), p.insurance_monthly),
                    maintenance_monthly))

\* Lines 115-116.
RentalShares(p, mortgage, monthly_data, mon, property_value) ==
  RentalCosts(p, mortgage, monthly_data, mon, property_value,
              MonthlyShare(property_value, p.property_tax_rate),
              MonthlyShare(property_value, p.maintenance_rate))

\* simulate_rental_property, lines 175-203; the selling costs are 6% of the
\* final property value whatever the parameters say.
RentalResult(p, monthly_data) ==
  IF monthly_data = <<>> THEN Raise("IndexError")
  ELSE
    LET last == monthly_data[Len(monthly_data)]
        final_property_value == last.property_value
        final_remaining_balance == last.remaining_balance
        selling_costs == FMul(final_property_value, Dec(6, 100))
    IN  Return(
          [monthly_df |-> monthly_data,
           summary |->
             [initial_payment |->
                FAdd(FMul(p.purchase_price, p.down_payment_pct),
                     FMul(p.purchase_price, p.closing_costs_pct)),
              final_property_value |-> final_property_value,
              selling_costs |-> selling_costs,
              final_net_proceeds |->
                FSub(FSub(final_property_value, selling_costs),
                     final_remaining_balance),
              total_true_cost |-> FAdd(last.cumulative_true_cost, selling_costs),
              total_operating_income |-> last.cumulative_operating_income,
              total_rental_income |->
                FSum(Column(monthly_data, "rental_income"))]])

\* rental_simulation.simulate_stock_investment, lines 263-283: the record
\* appended, and the locals after the pass.
StockRecord(monthly_data, mon, monthly_contribution, pf) ==
  [row |->
     [month |-> mon,
      year |-> (mon - 1) \div 12 + 1,
      portfolio_value |-> pf.portfolio_value,
      monthly_contribution |-> monthly_contribution,
      monthly_dividend |-> pf.monthly_dividend,
      monthly_operating_income |-> pf.monthly_dividend,
      cumulative_operating_income |->
        CumulativeOfFloats(monthly_data, "monthly_operating_income", pf.monthly_dividend),
      dividend_tax |-> pf.dividend_tax,
      cumulative_cost |-> pf.cumulative_dividend_tax,
      net_proceeds |-> pf.portfolio_value],
   portfolio_value |-> pf.portfolio_value,
   cumulative_dividends |-> pf.cumulative_dividends,
   cumulative_dividend_tax |-> pf.cumulative_dividend_tax,
   annual_dividends |-> pf.annual_dividends]

\* rental_simulation.simulate_stock_investment, one pass of the month loop
\* (the expense of the month is there: mon <= Len(expenses)).
StockMonth(p, expenses, st, monthly_data, mon) ==
  StockRecord(monthly_data, mon, expenses[mon],
              PortfolioMonth(p, st, expenses[mon], mon))

\* rental_simulation.simulate_stock_investment, lines 285-299.
StockResult(p, st, monthly_data) ==
  IF monthly_data = <<>> THEN Raise("IndexError")
  ELSE
    LET last == monthly_data[Len(monthly_data)]
    IN  Return(
          [monthly_df |-> monthly_data,
           summary |->
             [initial_payment |-> p.initial_investment,
              final_portfolio_value |-> last.portfolio_value,
              total_contributions |->
                FSum(Column(monthly_data, "monthly_contribution")),
              total_dividends |-> st.cumulative_dividends,
              total_dividend_tax |-> st.cumulative_dividend_tax,
              final_net_proceeds |-> last.net_proceeds]])

(***************************************************************************)
(* core/simulation.py                                                      *)
(***************************************************************************)

FMin(x, y) == IF FLe(x, y) THEN x ELSE y

\* x ** (1 / n) for x > 0 by Newton's iteration
\* y <- ((n - 1) y + x / y^(n - 1)) / n; the base itself when n = 1.
RECURSIVE RootIter(_, _, _, _)
RootIter(x, n, y, steps) ==
  IF steps = 0 \/ y.m = 0 THEN y
  ELSE RootIter(x, n,
                FDiv(FAdd(FMul(F(n - 1), y), FDiv(x, FPow(y, n - 1))), F(n)),
                steps - 1)

\* A numpy float raised to 1 / years: nan for a negative base and a
\* fractional exponent.
PowInverse(x, years) ==
  IF years = 1 \/ x.m = 0 THEN x
  ELSE IF x.m < 0 THEN NaN
  ELSE RootIter(x, years, FAdd(F(1), FDiv(FSub(x, F(1)), F(years))),
                2 * NewtonSteps)

\* ((net - base) / base) * 100 if base > 0 else 0
RoiOver(net, base) ==
  IF FLt(FZero, base)
  THEN FMul(FDiv(FSub(net, base), base), F(100))
  ELSE FZero

\* (total / base) * 100 if base > 0 else 0
RoiOfReturn(total, base) ==
  IF FLt(FZero, base) THEN FMul(FDiv(total, base), F(100)) ELSE FZero

AnnualizedOf(grown) ==
  IF "nan" \in DOMAIN grown THEN NaN ELSE FMul(FSub(grown, F(1)), F(100))

\* (((net / base) ** (1 / years)) - 1) * 100 if base > 0 and years > 0 else 0
AnnualizedReturn(net, base, years) ==
  IF FLt(FZero, base) /\ years > 0
  THEN AnnualizedOf(PowInverse(FDiv(net, base), years))
  ELSE FZero

\* tax_utils.calculate_primary_residence_exclusion with is_married=False
calculate_primary_residence_exclusion(gain, holding_period_years) ==
  IF holding_period_years < 2 THEN FZero ELSE FMin(gain, F(250000))

\* df[f].cumsum(): the running totals of a column, added left to right.
Cumsum(rows, f) == [k \in 1..Len(rows) |-> FSum(Column(SubSeq(rows, 1, k), f))]

\* simulate_homeownership, lines 83-127: the accumulators, the month's total
\* expense appended to monthly_expenses, and the record, whose value for
\* 'monthly_operating_income' is a name the function never binds: building
\* the record raises NameError and nothing is appended to monthly_data.
CoreHomeTotals(mortgage, acc, unrecoverable, monthly_tax_benefit) ==
  [cumulative_unrecoverable |-> FAdd(acc.cumulative_unrecoverable, unrecoverable),
   monthly_expenses |->
     Append(acc.monthly_expenses, FAdd(unrecoverable, mortgage.principal)),
   cumulative_operating_income |->
     FAdd(acc.cumulative_operating_income, monthly_tax_benefit),
   raised |-> "NameError"]

\* Lines 75-93: the unrecoverable cost, which carries the closing costs in
\* month 1, and the tax benefit (interest + property_tax) * (1 - tax_bracket).
CoreHomeCosts(p, mortgage, acc, mon, property_tax, maintenance) ==
  CoreHomeTotals(
    mortgage, acc,
    IF mon = 1
    THEN FAdd(FAdd(FAdd(FAdd(FAdd(mortgage.interest, property_tax),
                             p.hoa_monthly), p.insurance_monthly), maintenance),
              FMul(p.purchase_price, p.closing_costs_pct))
    ELSE FAdd(FAdd(FAdd(FAdd(mortgage.interest, property_tax),
                        p.hoa_monthly), p.insurance_monthly), maintenance),
    FMul(FAdd(mortgage.interest, property_tax), FSub(F(1), p.tax_bracket)))

\* Lines 71-72.
CoreHomeShares(p, mortgage, acc, mon, property_value) ==
  CoreHomeCosts(p, mortgage, acc, mon,
                MonthlyShare(property_value, p.property_tax_rate),
                MonthlyShare(property_value, p.maintenance_rate))

\* Lines 138-161, from the figures of the last record.
CoreHomeSummary(p, rows, final_property_value, final_equity, selling_costs, capital_gain, capital_gains_tax, net_proceeds, total_invested) ==
  [initial_investment |->
     FAdd(FMul(p.purchase_price, p.down_payment_pct),
          FMul(p.purchase_price, p.closing_costs_pct)),
   total_invested |-> total_invested,
   final_property_value |-> final_property_value,
   final_equity |-> final_equity,
   selling_costs |-> selling_costs,
   capital_gain |-> capital_gain,
   capital_gains_tax |-> capital_gains_tax,
   net_proceeds |-> net_proceeds,
   total_unrecoverable |-> rows[Len(rows)].cumulative_unrecoverable,
   total_principal_paid |-> rows[Len(rows)].cumulative_principal,
   roi |-> RoiOver(net_proceeds, total_invested),
   annualized_return |-> AnnualizedReturn(net_proceeds, total_invested, p.years)]

CoreHomeProceeds(p, rows, final_property_value, final_equity, selling_costs, capital_gain, capital_gains_tax) ==
  CoreHomeSummary(p, rows, final_property_value, final_equity, selling_costs,
                  capital_gain, capital_gains_tax,
                  FSub(FSub(final_equity, selling_costs), capital_gains_tax),
                  FAdd(FAdd(FMul(p.purchase_price, p.down_payment_pct),
                            FMul(p.purchase_price, p.closing_costs_pct)),
                       rows[Len(rows)].cumulative_principal))

CoreHomeGain(p, rows, final_property_value, final_equity, selling_costs, capital_gain) ==
  CoreHomeProceeds(
    p, rows, final_property_value, final_equity, selling_costs, capital_gain,
    calculate_capital_gains_tax(
      FMax(FZero,
           FSub(capital_gain,
                calculate_primary_residence_exclusion(capital_gain, p.years))),
      F(p.years), Dec(25, 100), Dec(15, 100)))

CoreHomeSale(p, rows, final_property_value, selling_costs) ==
  CoreHomeGain(p, rows, final_property_value, rows[Len(rows)].equity,
               selling_costs,
               FSub(FSub(final_property_value, p.purchase_price), selling_costs))

\* df with the column the function adds: cumulative_principal.
WithCumulative(rows, f, totals) ==
  [k \in 1..Len(rows) |-> (f :> totals[k]) @@ rows[k]]

\* simulation.simulate_homeownership, lines 129-168: an empty frame has no
\* column 'principal_payment' and df['principal_payment'] raises KeyError.
CoreHomeResult(p, monthly_data, expenses) ==
  IF monthly_data = <<>> THEN Raise("KeyError")
  ELSE
    LET df == WithCumulative(monthly_data, "cumulative_principal",
                             Cumsum(monthly_data, "principal_payment"))
    IN  Return(
          [monthly_df |-> df,
           summary |->
             CoreHomeSale(p, df, df[Len(df)].property_value,
                          FMul(df[Len(df)].property_value, p.selling_cost_pct)),
           plots |-> <<>>,
           monthly_expenses |-> expenses])

\* simulate_stock_investment, lines 241-258: the record appended, and the
\* locals the pass leaves.
CoreStockRecord(p, mon, rent, actual_contribution, portfolio, monthly_dividend, dividend_tax, cumulative_rent_now, income_now) ==
  [portfolio_value |-> portfolio,
   cumulative_rent |-> cumulative_rent_now,
   cumulative_operating_income |-> income_now,
   row |->
     [month |-> mon,
      year |-> FDiv(F(mon - 1), F(12)),
      rent |-> rent,
      monthly_contribution |-> actual_contribution,
      portfolio_value |-> portfolio,
      monthly_dividend |-> monthly_dividend,
      dividend_tax |-> dividend_tax,
      net_dividend |-> FSub(monthly_dividend, dividend_tax),
      cumulative_rent |-> cumulative_rent_now,
      cumulative_operating_income |-> income_now,
      net_worth |->
        IF mon = 1 THEN p.initial_investment ELSE FAdd(portfolio, income_now)]]

\* Lines 232-235: the dividend, its tax, the net dividend accumulated.
CoreStockDividend(p, st, mon, rent, actual_contribution, portfolio, monthly_dividend, dividend_tax) ==
  CoreStockRecord(p, mon, rent, actual_contribution, portfolio,
                  monthly_dividend, dividend_tax,
                  FAdd(st.cumulative_rent, rent),
                  FAdd(st.cumulative_operating_income,
                       FSub(monthly_dividend, dividend_tax)))

CoreStockYield(p, st, mon, rent, actual_contribution, portfolio, monthly_dividend) ==
  CoreStockDividend(p, st, mon, rent, actual_contribution, portfolio,
                    monthly_dividend, FMul(monthly_dividend, p.dividend_tax_rate))

\* Lines 228-229: the portfolio grows and takes the contribution.
CoreStockGrowth(p, st, mon, rent, actual_contribution, portfolio) ==
  CoreStockYield(p, st, mon, rent, actual_contribution, portfolio,
                 FMul(portfolio, FDiv(p.dividend_yield, F(12))))

\* An optional series argument: None when not passed, else the list.
None == [given |-> FALSE, items |-> <<>>]

Given(series) == [given |-> TRUE, items |-> series]

\* Lines 195-196 and 213-225: the contribution of the month.  In the rental
\* scenario it is the month's rental expense as passed; otherwise the
\* homeownership expense less the rent; params['monthly_contribution'] when
\* no series is used or the series has ended.
ActualContribution(p, a, mon, rent) ==
  LET is_rental_scenario ==
        a.rental_monthly_expenses.given /\ a.rental_income_monthly.given
      use_dynamic_contributions ==
        a.homeownership_monthly_expenses.given \/ is_rental_scenario
  IN  IF ~use_dynamic_contributions THEN p.monthly_contribution
      ELSE IF is_rental_scenario
           THEN IF mon <= Len(a.rental_monthly_expenses.items)
                THEN a.rental_monthly_expenses.items[mon]
                ELSE p.monthly_contribution
           ELSE IF mon <= Len(a.homeownership_monthly_expenses.items)
                THEN FSub(a.homeownership_monthly_expenses.items[mon], rent)
                ELSE p.monthly_contribution

CoreStockContribution(p, a, st, mon, rent, actual_contribution) ==
  CoreStockGrowth(p, st, mon, rent, actual_contribution,
                  FAdd(FMul(st.portfolio_value,
                            FAdd(F(1), FDiv(p.stock_return_rate, F(12)))),
                       actual_contribution))

CoreStockRent(p, a, st, mon, rent) ==
  CoreStockContribution(p, a, st, mon, rent, ActualContribution(p, a, mon, rent))

\* simulation.simulate_stock_investment, one pass of the month loop
\* (lines 206-258); the rent rises once a year.
CoreStockMonth(p, a, st, mon) ==
  CoreStockRent(p, a, st, mon,
                FMul(p.monthly_rent,
                     FPow(FAdd(F(1), p.rent_increase_rate), (mon - 1) \div 12)))

CoreStockSummary(p, final_portfolio, total_contributed, last) ==
  [initial_investment |-> p.initial_investment,
   total_contributed |-> total_contributed,
   final_portfolio_value |-> final_portfolio,
   total_rent_paid |-> last.cumulative_rent,
   total_operating_income |-> last.cumulative_operating_income,
   net_proceeds |-> final_portfolio,
   roi |-> RoiOver(final_portfolio, total_contributed),
   annualized_return |->
     AnnualizedReturn(final_portfolio, total_contributed, p.years)]

\* The column cumulative_contributions:
\* initial_investment + df['monthly_contribution'].cumsum()
CumulativeContributions(p, rows, totals) ==
  [k \in 1..Len(rows) |-> FAdd(p.initial_investment, totals[k])]

CoreStockFrame(p, df) ==
  Return([monthly_df |-> df,
          summary |->
            CoreStockSummary(p, df[Len(df)].portfolio_value,
                             df[Len(df)].cumulative_contributions, df[Len(df)]),
          plots |-> <<>>])

\* simulation.simulate_stock_investment, lines 260-283: an empty frame has no
\* column 'monthly_contribution' and reading it raises KeyError.
CoreStockResult(p, monthly_data) ==
  IF monthly_data = <<>> THEN Raise("KeyError")
  ELSE CoreStockFrame(
         p,
         WithCumulative(monthly_data, "cumulative_contributions",
                        CumulativeContributions(
                          p, monthly_data,
                          Cumsum(monthly_data, "monthly_contribution"))))

\* The second simulate_rental_property of simulation.py (line 664), the one
\* the module exports: the first (line 286) is rebound by it.
\* Lines 796-837: the net worth, the month's stock contribution for the
\* comparison, and the record.
CoreRentalRecord(p, mortgage, acc, mon, property_value, property_tax, maintenance, gross_monthly_rent, unrecoverable, rental_income_after_tax, monthly_tax_benefit, monthly_true_cost, excess_rental_income, stock_portfolio_contribution, portfolio, net_dividend, income_now) ==
  [cumulative_unrecoverable |-> FAdd(acc.cumulative_unrecoverable, unrecoverable),
   cumulative_operating_income |-> income_now,
   stock_portfolio_value |-> portfolio,
   monthly_expenses |->
     Append(acc.monthly_expenses,
            IF FLt(FZero, excess_rental_income)
            THEN FSub(mortgage.principal, excess_rental_income)
            ELSE FAdd(mortgage.principal, monthly_true_cost)),
   row |->
     [month |-> mon,
      year |-> FDiv(F(mon - 1), F(12)),
      property_value |-> property_value,
      mortgage_payment |-> mortgage.payment,
      principal_payment |-> mortgage.principal,
      interest_payment |-> mortgage.interest,
      property_tax |-> property_tax,
      hoa |-> p.hoa_monthly,
      insurance |-> p.insurance_monthly,
      maintenance |-> maintenance,
      gross_rent_income |-> gross_monthly_rent,
      rental_income_after_tax |-> rental_income_after_tax,
      unrecoverable_cost |-> unrecoverable,
      remaining_balance |-> mortgage.balance,
      equity |-> FSub(property_value, mortgage.balance),
      monthly_tax_benefit |-> monthly_tax_benefit,
      monthly_true_cost |-> monthly_true_cost,
      excess_rental_income |-> excess_rental_income,
      stock_portfolio_value |-> portfolio,
      stock_portfolio_contribution |-> stock_portfolio_contribution,
      monthly_dividend |-> net_dividend,
      monthly_operating_income |-> FAdd(monthly_tax_benefit, net_dividend),
      cumulative_operating_income |-> income_now,
      cumulative_unrecoverable |->
        FAdd(acc.cumulative_unrecoverable, unrecoverable),
      net_worth |->
        IF mon = 1 THEN FMul(p.purchase_price, p.down_payment_pct)
        ELSE FAdd(FSub(FSub(property_value, mortgage.balance),
                       FMul(p.purchase_price, p.closing_costs_pct)),
                  portfolio)]]

\* Lines 782-788: the dividend net of its tax, and the operating income.
CoreRentalDividend(p, mortgage, acc, mon, property_value, property_tax, maintenance, gross_monthly_rent, unrecoverable, rental_income_after_tax, monthly_tax_benefit, monthly_true_cost, excess_rental_income, stock_portfolio_contribution, portfolio, monthly_dividend) ==
  CoreRentalRecord(p, mortgage, acc, mon, property_value, property_tax,
                   maintenance, gross_monthly_rent, unrecoverable,
                   rental_income_after_tax, monthly_tax_benefit,
                   monthly_true_cost, excess_rental_income,
                   stock_portfolio_contribution, portfolio,
                   FSub(monthly_dividend,
                        FMul(monthly_dividend, p.dividend_tax_rate)),
                   FAdd(acc.cumulative_operating_income,
                        FAdd(monthly_tax_benefit,
                             FSub(monthly_dividend,
                                  FMul(monthly_dividend, p.dividend_tax_rate)))))

\* Lines 778-782: the complementary portfolio grows and takes the month's
\* contribution.
CoreRentalPortfolio(p, mortgage, acc, mon, property_value, property_tax, maintenance, gross_monthly_rent, unrecoverable, rental_income_after_tax, monthly_tax_benefit, monthly_true_cost, excess_rental_income, stock_portfolio_contribution, portfolio) ==
  CoreRentalDividend(p, mortgage, acc, mon, property_value, property_tax,
                     maintenance, gross_monthly_rent, unrecoverable,
                     rental_income_after_tax, monthly_tax_benefit,
                     monthly_true_cost, excess_rental_income,
                     stock_portfolio_contribution, portfolio,
                     FMul(portfolio, FDiv(p.dividend_yield, F(12))))

CoreRentalInvested(p, mortgage, acc, mon, property_value, property_tax, maintenance, gross_monthly_rent, unrecoverable, rental_income_after_tax, monthly_tax_benefit, monthly_true_cost, excess_rental_income, stock_portfolio_contribution) ==
  CoreRentalPortfolio(p, mortgage, acc, mon, property_value, property_tax,
                      maintenance, gross_monthly_rent, unrecoverable,
                      rental_income_after_tax, monthly_tax_benefit,
                      monthly_true_cost, excess_rental_income,
                      stock_portfolio_contribution,
                      FAdd(FMul(acc.stock_portfolio_value,
                                FAdd(F(1), FDiv(p.stock_return_rate, F(12)))),
                           stock_portfolio_contribution))

\* Lines 762-775: a negative true cost is excess rental income, invested
\* with the tax benefit; the true cost is then 0.
CoreRentalTrueCost(p, mortgage, acc, mon, property_value, property_tax, maintenance, gross_monthly_rent, unrecoverable, rental_income_after_tax, monthly_tax_benefit, monthly_true_cost) ==
  IF FLt(monthly_true_cost, FZero)
  THEN CoreRentalInvested(p, mortgage, acc, mon, property_value, property_tax,
                          maintenance, gross_monthly_rent, unrecoverable,
                          rental_income_after_tax, monthly_tax_benefit, FZero,
                          FAbs(monthly_true_cost),
                          FAdd(monthly_tax_benefit, FAbs(monthly_true_cost)))
  ELSE CoreRentalInvested(p, mortgage, acc, mon, property_value, property_tax,
                          maintenance, gross_monthly_rent, unrecoverable,
                          rental_income_after_tax, monthly_tax_benefit,
                          monthly_true_cost, FZero, monthly_tax_benefit)

\* Lines 752-762.
CoreRentalIncome(p, mortgage, acc, mon, property_value, property_tax, maintenance, gross_monthly_rent, unrecoverable, rental_income_after_tax) ==
  CoreRentalTrueCost(p, mortgage, acc, mon, property_value, property_tax,
                     maintenance, gross_monthly_rent, unrecoverable,
                     rental_income_after_tax,
                     FMul(FAdd(mortgage.interest, property_tax),
                          FSub(F(1), p.tax_bracket)),
                     FSub(unrecoverable, rental_income_after_tax))

\* Lines 741-752: the rent net of vacancy, the unrecoverable cost (with the
\* closing costs in month 1), the rent after tax.
CoreRentalCosts(p, mortgage, acc, mon, property_value, property_tax, maintenance, gross_monthly_rent) ==
  CoreRentalIncome(
    p, mortgage, acc, mon, property_value, property_tax, maintenance,
    gross_monthly_rent,
    IF mon = 1
    THEN FAdd(FAdd(FAdd(FAdd(FAdd(mortgage.interest, property_tax),
                             p.hoa_monthly), p.insurance_monthly), maintenance),
              FMul(p.purchase_price, p.closing_costs_pct))
    ELSE FAdd(FAdd(FAdd(FAdd(mortgage.interest, property_tax),
                        p.hoa_monthly), p.insurance_monthly), maintenance),
    FMul(gross_monthly_rent, FSub(F(1), p.tax_bracket)))

CoreRentalShares(p, mortgage, acc, mon, property_value) ==
  CoreRentalCosts(p, mortgage, acc, mon, property_value,
                  MonthlyShare(property_value, p.property_tax_rate),
                  MonthlyShare(property_value, p.maintenance_rate),
                  FMul(p.monthly_rent_income, FSub(F(1), p.vacancy_rate)))

\* Lines 855-876.
CoreRentalSummary(p, df, initial_investment, selling_costs, capital_gain, capital_gains_tax, net_proceeds, total_invested) ==
  [initial_investment |-> initial_investment,
   total_invested |-> total_invested,
   final_property_value |-> df[Len(df)].property_value,
   final_equity |-> df[Len(df)].equity,
   final_stock_portfolio |-> df[Len(df)].stock_portfolio_value,
   selling_costs |-> selling_costs,
   capital_gain |-> capital_gain,
   capital_gains_tax |-> capital_gains_tax,
   net_proceeds |-> net_proceeds,
   total_unrecoverable |-> df[Len(df)].cumulative_unrecoverable,
   total_principal_paid |-> df[Len(df)].cumulative_principal,
   total_rental_income |-> FSum(Column(df, "gross_rent_income")),
   total_operating_income |-> df[Len(df)].cumulative_operating_income,
   roi |-> RoiOver(net_proceeds, total_invested),
   annualized_return |-> AnnualizedReturn(net_proceeds, total_invested, p.years)]

CoreRentalProceeds(p, df, initial_investment, selling_costs, capital_gain, capital_gains_tax) ==
  CoreRentalSummary(p, df, initial_investment, selling_costs, capital_gain,
                    capital_gains_tax,
                    FAdd(FSub(FSub(df[Len(df)].equity, selling_costs),
                              capital_gains_tax),
                         df[Len(df)].stock_portfolio_value),
                    FAdd(initial_investment, df[Len(df)].cumulative_principal))

\* Lines 843-852: the gain is the final equity less the initial investment,
\* taxed by calculate_capital_gains_tax at its default rates.
CoreRentalSale(p, df, initial_investment, selling_costs) ==
  CoreRentalProceeds(p, df, initial_investment, selling_costs,
                     FSub(df[Len(df)].equity, initial_investment),
                     calculate_capital_gains_tax(
                       FSub(df[Len(df)].equity, initial_investment),
                       F(p.years), Dec(25, 100), Dec(15, 100)))

CoreRentalFrame(p, df, expenses) ==
  Return([monthly_df |-> df,
          summary |->
            CoreRentalSale(p, df,
                           FAdd(FMul(p.purchase_price, p.down_payment_pct),
                                FMul(p.purchase_price, p.closing_costs_pct)),
                           FMul(df[Len(df)].property_value, p.selling_cost_pct)),
          plots |-> <<>>,
          monthly_expenses |-> expenses])

\* simulation.simulate_rental_property, lines 839-883: an empty frame has no
\* column 'principal_payment' and reading it raises KeyError.
CoreRentalResult(p, monthly_data, expenses) ==
  IF monthly_data = <<>> THEN Raise("KeyError")
  ELSE CoreRentalFrame(p,
                       WithCumulative(monthly_data, "cumulative_principal",
                                      Cumsum(monthly_data, "principal_payment")),
                       expenses)

(***************************************************************************)
(* The state of one call: the function called, its arguments, the place    *)
(* the call has reached, and the function's locals.                        *)
(***************************************************************************)
VARIABLES
  fn,                       \* the function called
  args,                     \* its arguments (for a simulator: params and its series)
  pc,                       \* "call", "amortize", "loop", "done" or "raised"
  exc,                      \* the exception that ended the call, or "none"
  month,                    \* the loop variable: the last month handled
  monthly_payment,          \* calculate_amortization_schedule's local
  balance,                  \* calculate_amortization_schedule's local
  schedule,                 \* the schedule built (a simulator's `amortization`)
  monthly_data,             \* a simulator's list of monthly records
  portfolio_value,          \* locals of the two stock simulators
  cumulative_rent,
  cumulative_dividends,
  cumulative_dividend_tax,
  annual_dividends,
  cumulative_unrecoverable, \* locals of the simulators of core/simulation.py
  cumulative_operating_income,
  monthly_expenses,
  stock_portfolio_value,
  calls,                    \* the calls the caller has made before this one
  ret                       \* the value returned
                            \* (sum_of_floats, the interpreter's sum, is
                            \* declared with the simulators above)

\* What only calculate_amortization_schedule changes; the interpreter never
\* changes during a call.
amortLocals == <<monthly_payment, balance>>

interpreter == <<sum_of_floats>>

stockLocals ==
  <<portfolio_value, cumulative_rent, cumulative_dividends,
    cumulative_dividend_tax, annual_dividends>>

coreLocals ==
  <<cumulative_unrecoverable, cumulative_operating_income, monthly_expenses,
    stock_portfolio_value>>

vars ==
  <<fn, args, pc, exc, month, monthly_payment, balance, schedule, monthly_data,
    portfolio_value, cumulative_rent, cumulative_dividends,
    cumulative_dividend_tax, annual_dividends, cumulative_unrecoverable,
    cumulative_operating_income, monthly_expenses, stock_portfolio_value,
    calls, ret, sum_of_floats>>

NoValue == <<>>

\* Before a call nothing is built and no local is bound.
Fresh ==
  /\ pc = "call"
  /\ exc = "none"
  /\ month = 0
  /\ monthly_payment = NoValue
  /\ balance = NoValue
  /\ schedule = <<>>
  /\ monthly_data = <<>>
  /\ portfolio_value = NoValue
  /\ cumulative_rent = NoValue
  /\ cumulative_dividends = NoValue
  /\ cumulative_dividend_tax = NoValue
  /\ annual_dividends = NoValue
  /\ cumulative_unrecoverable = NoValue
  /\ cumulative_operating_income = NoValue
  /\ monthly_expenses = NoValue
  /\ stock_portfolio_value = NoValue
  /\ calls = <<>>
  /\ ret = NoValue
  /\ sum_of_floats \in {"sequential", "compensated"}

\* Arguments of the amortization engine.
AmortPrincipals == {F(100000), F(250000), F(417000), Dec(9500050, 100)}

AmortRates == {FZero, Dec(3, 100), Dec(65, 1000), Dec(12, 100), Dec(1, 4)}

AmortArgs ==
  [principal : AmortPrincipals, annual_rate : AmortRates, years : 0..MaxYears]

InitAmort ==
  /\ fn = "calculate_amortization_schedule"
  /\ args \in AmortArgs
  /\ Fresh

\* Lines 25-30: the payment (which may raise), the empty schedule, the balance.
AmortCall ==
  /\ fn = "calculate_amortization_schedule"
  /\ pc = "call"
  /\ LET paid == calculate_monthly_payment(args.principal, args.annual_rate, args.years)
     IN IF paid.raised /= "none"
        THEN /\ pc' = "raised"
             /\ exc' = paid.raised
             /\ UNCHANGED <<monthly_payment, balance>>
        ELSE /\ pc' = "loop"
             /\ monthly_payment' = paid.value
             /\ balance' = args.principal
             /\ UNCHANGED exc
  /\ UNCHANGED <<interpreter, calls, coreLocals, fn, args, month, schedule, monthly_data, stockLocals, ret>>

\* Lines 32-43: one pass of the loop.
AmortIter ==
  /\ fn = "calculate_amortization_schedule"
  /\ pc = "loop"
  /\ month < NumPayments(args.years)
  /\ LET step == AmortStep(balance, monthly_payment,
                           FDiv(args.annual_rate, F(MonthsPerYear)), month + 1)
     IN /\ schedule' = Append(schedule, step.entry)
        /\ balance' = step.balance
  /\ month' = month + 1
  /\ UNCHANGED <<interpreter, calls, coreLocals, fn, args, pc, exc, monthly_payment, monthly_data, stockLocals, ret>>

\* Line 45: the schedule is returned.
AmortReturn ==
  /\ fn = "calculate_amortization_schedule"
  /\ pc = "loop"
  /\ month = NumPayments(args.years)
  /\ pc' = "done"
  /\ ret' = schedule
  /\ UNCHANGED <<interpreter, calls, coreLocals, fn, args, exc, month, amortLocals, schedule, monthly_data, stockLocals>>

NextAmort == AmortCall \/ AmortIter \/ AmortReturn

SpecAmort == InitAmort /\ [][NextAmort]_vars

\* Arguments of the capital-gains rule.
TaxGains == {F(-5000), FZero, F(1), F(10000), Dec(25000050, 100)}

TaxHoldings == {FZero, Dec(1, 2), Dec(999, 1000), F(1), Dec(1001, 1000), F(2), F(30)}

TaxRatePairs ==
  { <<Dec(25, 100), Dec(15, 100)>>, <<Dec(37, 100), Dec(20, 100)>>,
    <<Dec(10, 100), FZero>> }

TaxArgs ==
  { [gain |-> g, holding_period_years |-> h,
     tax_rate_short |-> r[1], tax_rate_long |-> r[2]] :
      g \in TaxGains, h \in TaxHoldings, r \in TaxRatePairs }

InitTax ==
  /\ fn = "calculate_capital_gains_tax"
  /\ args \in TaxArgs
  /\ Fresh

TaxCall ==
  /\ fn = "calculate_capital_gains_tax"
  /\ pc = "call"
  /\ pc' = "done"
  /\ ret' = calculate_capital_gains_tax(args.gain, args.holding_period_years,
                                        args.tax_rate_short, args.tax_rate_long)
  /\ UNCHANGED <<interpreter, calls, coreLocals, fn, args, exc, month, amortLocals, schedule, monthly_data, stockLocals>>

NextTax == TaxCall

SpecTax == InitTax /\ [][NextTax]_vars

\* Parameters of simulate_homeownership.
PropertyParams ==
  { [purchase_price |-> F(400000), down_payment_pct |-> Dec(20, 100),
     mortgage_rate |-> r, mortgage_years |-> my,
     closing_costs_pct |-> Dec(3, 100), selling_cost_pct |-> Dec(5, 100),
     appreciation_rate |-> Dec(3, 100), property_tax_rate |-> Dec(12, 1000),
     hoa_monthly |-> h, insurance_monthly |-> F(120),
     maintenance_rate |-> Dec(1, 100), tax_bracket |-> Dec(24, 100),
     years |-> y] :
      r \in {FZero, Dec(65, 1000)}, my \in 0..MaxYears,
      h \in {FZero, Dec(15050, 100)}, y \in 0..MaxYears }

\* Parameters of simulate_rental_property: the same with a rent and a
\* vacancy rate.
RentalParams ==
  { p @@ [monthly_rent |-> rent, vacancy_rate |-> Dec(5, 100)] :
      p \in {q \in PropertyParams : q.hoa_monthly = FZero},
      rent \in {F(2500), Dec(185055, 100)} }

\* Parameters of the two stock simulators; the last ones start from savings
\* that withdrawals of the rent's excess over the costs use up.
StockParams ==
  { [initial_investment |-> F(92000), monthly_rent |-> rent,
     rent_increase_rate |-> inc, stock_return_rate |-> Dec(7, 100),
     dividend_yield |-> Dec(2, 100), tax_bracket |-> Dec(24, 100),
     years |-> y] :
      rent \in {F(2000), Dec(80010, 100)}, inc \in {FZero, Dec(3, 100)},
      y \in 0..MaxYears }
  \cup
  { [initial_investment |-> F(6000), monthly_rent |-> F(2000),
     rent_increase_rate |-> FZero, stock_return_rate |-> Dec(7, 100),
     dividend_yield |-> Dec(2, 100), tax_bracket |-> Dec(24, 100),
     years |-> y] : y \in 1..MaxYears }

\* A monthly series base + k * step of n months.
Series(base, step, n) == [k \in 1..n |-> FAdd(base, FMul(F(k), step))]

\* The monthly cost series handed to a stock simulator: above the rent, below
\* it, negative, and one that ends after a year.
MonthlySeries ==
  { Series(Dec(234567, 100), Dec(137, 100), MaxYears * MonthsPerYear),
    Series(F(1500), FZero, MaxYears * MonthsPerYear),
    Series(Dec(-30025, 100), Dec(-211, 100), MaxYears * MonthsPerYear),
    Series(Dec(310010, 100), Dec(1, 100), MonthsPerYear) }

InitHome ==
  /\ fn = "simulate_homeownership"
  /\ args \in [params : PropertyParams]
  /\ Fresh

InitRentInvest ==
  /\ fn = "simulate_rent_and_invest"
  /\ args \in [params : StockParams,
               homeownership_true_monthly_costs : MonthlySeries]
  /\ Fresh

InitRental ==
  /\ fn = "simulate_rental_property"
  /\ args \in [params : RentalParams]
  /\ Fresh

InitStock ==
  /\ fn = "simulate_stock_investment"
  /\ args \in [params : {p \in StockParams :
                           p.monthly_rent = F(2000) /\ p.rent_increase_rate = FZero},
               rental_monthly_expenses : MonthlySeries]
  /\ Fresh

\* months = years * 12
Months(p) == p.years * MonthsPerYear

\* loan_amount = purchase_price - purchase_price * down_payment_pct
LoanAmount(p) ==
  FSub(p.purchase_price, FMul(p.purchase_price, p.down_payment_pct))

\* The locals of a stock simulator as one record.
StockState ==
  [portfolio_value |-> portfolio_value,
   cumulative_rent |-> cumulative_rent,
   cumulative_dividends |-> cumulative_dividends,
   cumulative_dividend_tax |-> cumulative_dividend_tax,
   annual_dividends |-> annual_dividends]

\* Lines 63-84 of either property simulator, into the call of
\* calculate_amortization_schedule for the loan: the payment, which may
\* raise, and the empty schedule.
PropertyStart(name) ==
  /\ fn = name
  /\ pc = "call"
  /\ LET paid == calculate_monthly_payment(LoanAmount(args.params),
                                           args.params.mortgage_rate,
                                           args.params.mortgage_years)
     IN IF paid.raised /= "none"
        THEN /\ pc' = "raised"
             /\ exc' = paid.raised
             /\ UNCHANGED amortLocals
        ELSE /\ pc' = "amortize"
             /\ monthly_payment' = paid.value
             /\ balance' = LoanAmount(args.params)
             /\ UNCHANGED exc
  /\ UNCHANGED <<interpreter, calls, coreLocals, fn, args, month, schedule, monthly_data, stockLocals, ret>>

\* One pass of the schedule loop for the loan; after the last pass the
\* schedule is the simulator's `amortization` and its own month loop starts.
PropertyAmortize(name) ==
  /\ fn = name
  /\ pc = "amortize"
  /\ LET step == AmortStep(balance, monthly_payment,
                           FDiv(args.params.mortgage_rate, F(MonthsPerYear)),
                           month + 1)
     IN /\ schedule' = Append(schedule, step.entry)
        /\ balance' = step.balance
  /\ IF month + 1 = NumPayments(args.params.mortgage_years)
     THEN /\ pc' = "loop"
          /\ month' = 0
     ELSE /\ month' = month + 1
          /\ UNCHANGED pc
  /\ UNCHANGED <<interpreter, calls, coreLocals, fn, args, exc, monthly_payment, monthly_data, stockLocals, ret>>

\* The end of a simulator: its result, or the exception building it raises.
Finish(result) ==
  /\ IF result.raised /= "none"
     THEN /\ pc' = "raised"
          /\ exc' = result.raised
          /\ UNCHANGED ret
     ELSE /\ pc' = "done"
          /\ ret' = result.value
          /\ UNCHANGED exc
  /\ UNCHANGED <<interpreter, calls, coreLocals, fn, args, month, amortLocals, schedule, monthly_data, stockLocals>>

HomeStart == PropertyStart("simulate_homeownership")

HomeAmortize == PropertyAmortize("simulate_homeownership")

\* homeownership_simulation.py lines 90-163.
HomeIter ==
  /\ fn = "simulate_homeownership"
  /\ pc = "loop"
  /\ month < Months(args.params)
  /\ \E property_value \in {PropertyValue(args.params, month + 1)} :
       monthly_data' =
         Append(monthly_data,
                HomeShares(args.params, MortgageOf(schedule, month + 1),
                           monthly_data, month + 1, property_value))
  /\ month' = month + 1
  /\ UNCHANGED <<interpreter, calls, coreLocals, fn, args, pc, exc, amortLocals, schedule, stockLocals, ret>>

HomeReturn ==
  /\ fn = "simulate_homeownership"
  /\ pc = "loop"
  /\ month = Months(args.params)
  /\ Finish(HomeResult(args.params, monthly_data))

RentalStart == PropertyStart("simulate_rental_property")

RentalAmortize == PropertyAmortize("simulate_rental_property")

\* rental_simulation.py lines 94-173.
RentalIter ==
  /\ fn = "simulate_rental_property"
  /\ pc = "loop"
  /\ month < Months(args.params)
  /\ \E property_value \in {PropertyValue(args.params, month + 1)} :
       monthly_data' =
         Append(monthly_data,
                RentalShares(args.params, MortgageOf(schedule, month + 1),
                             monthly_data, month + 1, property_value))
  /\ month' = month + 1
  /\ UNCHANGED <<interpreter, calls, coreLocals, fn, args, pc, exc, amortLocals, schedule, stockLocals, ret>>

RentalReturn ==
  /\ fn = "simulate_rental_property"
  /\ pc = "loop"
  /\ month = Months(args.params)
  /\ Finish(RentalResult(args.params, monthly_data))

\* Lines 212-228 of simulate_rent_and_invest, 218-231 of
\* simulate_stock_investment: the portfolio holds the initial investment,
\* the accumulators are 0.
StockStart(name) ==
  /\ fn = name
  /\ pc = "call"
  /\ pc' = "loop"
  /\ portfolio_value' = args.params.initial_investment
  /\ cumulative_rent' = FZero
  /\ cumulative_dividends' = FZero
  /\ cumulative_dividend_tax' = FZero
  /\ annual_dividends' = FZero
  /\ UNCHANGED <<interpreter, calls, coreLocals, fn, args, exc, month, amortLocals, schedule, monthly_data, ret>>

\* One pass of a stock simulator's loop over `series`: reading a month the
\* series does not have raises IndexError, otherwise `step` is the pass.
StockPass(series, step) ==
  IF month + 1 > Len(series)
  THEN /\ pc' = "raised"
       /\ exc' = "IndexError"
       /\ UNCHANGED <<month, monthly_data, stockLocals>>
  ELSE /\ monthly_data' = Append(monthly_data, step.row)
       /\ portfolio_value' = step.portfolio_value
       /\ cumulative_rent' = step.cumulative_rent
       /\ cumulative_dividends' = step.cumulative_dividends
       /\ cumulative_dividend_tax' = step.cumulative_dividend_tax
       /\ annual_dividends' = step.annual_dividends
       /\ month' = month + 1
       /\ UNCHANGED <<pc, exc>>

RentInvestStart == StockStart("simulate_rent_and_invest")

\* homeownership_simulation.py lines 230-289.
RentInvestIter ==
  /\ fn = "simulate_rent_and_invest"
  /\ pc = "loop"
  /\ month < Months(args.params)
  /\ StockPass(args.homeownership_true_monthly_costs,
               RentInvestMonth(args.params,
                               args.homeownership_true_monthly_costs,
                               StockState, monthly_data, month + 1))
  /\ UNCHANGED <<interpreter, calls, coreLocals, fn, args, amortLocals, schedule, ret>>

RentInvestReturn ==
  /\ fn = "simulate_rent_and_invest"
  /\ pc = "loop"
  /\ month = Months(args.params)
  /\ Finish(RentInvestResult(args.params, StockState, monthly_data))

StockInvestStart == StockStart("simulate_stock_investment")

\* rental_simulation.py lines 233-283; the loop leaves cumulative_rent alone.
StockInvestIter ==
  /\ fn = "simulate_stock_investment"
  /\ pc = "loop"
  /\ month < Months(args.params)
  /\ StockPass(args.rental_monthly_expenses,
               [cumulative_rent |-> cumulative_rent] @@
               StockMonth(args.params, args.rental_monthly_expenses,
                          StockState, monthly_data, month + 1))
  /\ UNCHANGED <<interpreter, calls, coreLocals, fn, args, amortLocals, schedule, ret>>

StockInvestReturn ==
  /\ fn = "simulate_stock_investment"
  /\ pc = "loop"
  /\ month = Months(args.params)
  /\ Finish(StockResult(args.params, StockState, monthly_data))

InitSim == InitHome \/ InitRentInvest \/ InitRental \/ InitStock

NextSim ==
  \/ HomeStart \/ HomeAmortize \/ HomeIter \/ HomeReturn
  \/ RentalStart \/ RentalAmortize \/ RentalIter \/ RentalReturn
  \/ RentInvestStart \/ RentInvestIter \/ RentInvestReturn
  \/ StockInvestStart \/ StockInvestIter \/ StockInvestReturn

SpecSim == InitSim /\ [][NextSim]_vars

(***************************************************************************)
(* core/simulation.py: the calls.                                          *)
(***************************************************************************)

CoreHome == "simulation.simulate_homeownership"

CoreStock == "simulation.simulate_stock_investment"

CoreRental == "simulation.simulate_rental_property"

\* Parameters of simulation.simulate_rental_property: the property, the rent
\* it earns (below and above its costs) and the complementary portfolio.
CoreRentalParams ==
  { p @@ [monthly_rent_income |-> rent, vacancy_rate |-> Dec(5, 100),
          stock_return_rate |-> Dec(10, 100), dividend_yield |-> Dec(2, 100),
          dividend_tax_rate |-> Dec(15, 100)] :
      p \in {q \in PropertyParams : q.hoa_monthly = FZero},
      rent \in {F(2500), F(5200)} }

\* Parameters of simulation.simulate_stock_investment: with capital and a
\* fixed contribution, and with neither.
CoreStockParams ==
  { [initial_investment |-> c[1], monthly_contribution |-> c[2],
     stock_return_rate |-> Dec(7, 100), dividend_yield |-> Dec(2, 100),
     dividend_tax_rate |-> Dec(15, 100), monthly_rent |-> F(2000),
     rent_increase_rate |-> Dec(3, 100), years |-> y] :
      c \in { <<F(92000), F(500)>>, <<FZero, FZero>> }, y \in 0..MaxYears }

\* The series it is called with: none, the homeownership expenses, the rental
\* expenses with the rental income, the rental expenses alone.
CoreStockSeries ==
  { [homeownership_monthly_expenses |-> None,
     rental_monthly_expenses |-> None, rental_income_monthly |-> None],
    [homeownership_monthly_expenses |->
       Given(Series(Dec(234567, 100), Dec(137, 100), MaxYears * MonthsPerYear)),
     rental_monthly_expenses |-> None, rental_income_monthly |-> None],
    [homeownership_monthly_expenses |->
       Given(Series(Dec(310010, 100), Dec(1, 100), MonthsPerYear)),
     rental_monthly_expenses |-> None, rental_income_monthly |-> None],
    [homeownership_monthly_expenses |-> None,
     rental_monthly_expenses |->
       Given(Series(Dec(310010, 100), Dec(1, 100), MaxYears * MonthsPerYear)),
     rental_income_monthly |->
       Given(Series(Dec(180500, 100), FZero, MaxYears * MonthsPerYear))],
    [homeownership_monthly_expenses |-> None,
     rental_monthly_expenses |->
       Given(Series(Dec(310010, 100), Dec(1, 100), MaxYears * MonthsPerYear)),
     rental_income_monthly |-> None] }

InitCoreHome ==
  /\ fn = CoreHome
  /\ args \in [params : {q \in PropertyParams : q.hoa_monthly = FZero}]
  /\ Fresh

InitCoreStock ==
  /\ fn = CoreStock
  /\ args \in { [params |-> p] @@ series :
                  p \in CoreStockParams, series \in CoreStockSeries }
  /\ Fresh

InitCoreRental ==
  /\ fn = CoreRental
  /\ args \in [params : CoreRentalParams]
  /\ Fresh

\* The accumulators of a simulator of simulation.py as one record.
CoreState ==
  [cumulative_unrecoverable |-> cumulative_unrecoverable,
   cumulative_operating_income |-> cumulative_operating_income,
   monthly_expenses |-> monthly_expenses,
   stock_portfolio_value |-> stock_portfolio_value,
   portfolio_value |-> portfolio_value,
   cumulative_rent |-> cumulative_rent]

\* One pass of mortgage_utils.calculate_amortization_schedule for the loan;
\* after the last pass the simulator binds its accumulators (lines 47-51,
\* 710-717) and its month loop starts.
CoreAmortize(name) ==
  /\ fn = name
  /\ pc = "amortize"
  /\ LET step == AmortStep(balance, monthly_payment,
                           FDiv(args.params.mortgage_rate, F(MonthsPerYear)),
                           month + 1)
     IN /\ schedule' = Append(schedule, step.entry)
        /\ balance' = step.balance
  /\ IF month + 1 = NumPayments(args.params.mortgage_years)
     THEN /\ pc' = "loop"
          /\ month' = 0
          /\ cumulative_unrecoverable' = FZero
          /\ cumulative_operating_income' = FZero
          /\ monthly_expenses' = <<>>
          /\ stock_portfolio_value' =
               IF name = CoreRental THEN FZero ELSE stock_portfolio_value
     ELSE /\ month' = month + 1
          /\ UNCHANGED <<pc, coreLocals>>
  /\ UNCHANGED <<interpreter, calls, fn, args, exc, monthly_payment, monthly_data, stockLocals, ret>>

CoreHomeStart == PropertyStart(CoreHome)

CoreHomeAmortize == CoreAmortize(CoreHome)

\* simulation.py lines 53-127: the pass ends in the NameError of line 123.
CoreHomeIter ==
  /\ fn = CoreHome
  /\ pc = "loop"
  /\ month < Months(args.params)
  /\ \E property_value \in {PropertyValue(args.params, month + 1)} :
       LET pass == CoreHomeShares(args.params, MortgageOf(schedule, month + 1),
                                  CoreState, month + 1, property_value)
       IN /\ cumulative_unrecoverable' = pass.cumulative_unrecoverable
          /\ cumulative_operating_income' = pass.cumulative_operating_income
          /\ monthly_expenses' = pass.monthly_expenses
          /\ exc' = pass.raised
  /\ pc' = "raised"
  /\ month' = month + 1
  /\ UNCHANGED <<interpreter, calls, fn, args, amortLocals, schedule, monthly_data, stockLocals, stock_portfolio_value, ret>>

CoreHomeReturn ==
  /\ fn = CoreHome
  /\ pc = "loop"
  /\ month = Months(args.params)
  /\ Finish(CoreHomeResult(args.params, monthly_data, monthly_expenses))

\* Lines 185-203.
CoreStockStart ==
  /\ fn = CoreStock
  /\ pc = "call"
  /\ pc' = "loop"
  /\ portfolio_value' = args.params.initial_investment
  /\ cumulative_rent' = FZero
  /\ cumulative_operating_income' = FZero
  /\ UNCHANGED <<interpreter, calls, fn, args, exc, month, amortLocals, schedule, monthly_data, cumulative_dividends, cumulative_dividend_tax, annual_dividends, cumulative_unrecoverable, monthly_expenses, stock_portfolio_value, ret>>

\* Lines 205-258.
CoreStockIter ==
  /\ fn = CoreStock
  /\ pc = "loop"
  /\ month < Months(args.params)
  /\ LET pass == CoreStockMonth(args.params, args, CoreState, month + 1)
     IN /\ monthly_data' = Append(monthly_data, pass.row)
        /\ portfolio_value' = pass.portfolio_value
        /\ cumulative_rent' = pass.cumulative_rent
        /\ cumulative_operating_income' = pass.cumulative_operating_income
  /\ month' = month + 1
  /\ UNCHANGED <<interpreter, calls, fn, args, pc, exc, amortLocals, schedule, cumulative_dividends, cumulative_dividend_tax, annual_dividends, cumulative_unrecoverable, monthly_expenses, stock_portfolio_value, ret>>

CoreStockReturn ==
  /\ fn = CoreStock
  /\ pc = "loop"
  /\ month = Months(args.params)
  /\ Finish(CoreStockResult(args.params, monthly_data))

\* Lines 678-707: calculate_monthly_payment, then the schedule.
CoreRentalStart == PropertyStart(CoreRental)

CoreRentalAmortize == CoreAmortize(CoreRental)

\* Lines 719-837.
CoreRentalIter ==
  /\ fn = CoreRental
  /\ pc = "loop"
  /\ month < Months(args.params)
  /\ \E property_value \in {PropertyValue(args.params, month + 1)} :
       LET pass == CoreRentalShares(args.params,
                                    MortgageOf(schedule, month + 1),
                                    CoreState, month + 1, property_value)
       IN /\ monthly_data' = Append(monthly_data, pass.row)
          /\ cumulative_unrecoverable' = pass.cumulative_unrecoverable
          /\ cumulative_operating_income' = pass.cumulative_operating_income
          /\ monthly_expenses' = pass.monthly_expenses
          /\ stock_portfolio_value' = pass.stock_portfolio_value
  /\ month' = month + 1
  /\ UNCHANGED <<interpreter, calls, fn, args, pc, exc, amortLocals, schedule, stockLocals, ret>>

CoreRentalReturn ==
  /\ fn = CoreRental
  /\ pc = "loop"
  /\ month = Months(args.params)
  /\ Finish(CoreRentalResult(args.params, monthly_data, monthly_expenses))

InitCore == InitCoreHome \/ InitCoreStock \/ InitCoreRental

NextCore ==
  \/ CoreHomeStart \/ CoreHomeAmortize \/ CoreHomeIter \/ CoreHomeReturn
  \/ CoreStockStart \/ CoreStockIter \/ CoreStockReturn
  \/ CoreRentalStart \/ CoreRentalAmortize \/ CoreRentalIter \/ CoreRentalReturn

SpecCore == InitCore /\ [][NextCore]_vars

(***************************************************************************)
(* The pages: a caller that makes one call after another, as                *)
(* pages/1_Buy_and_Rent.py and pages/2_Buy_and_Live.py do.                  *)
(***************************************************************************)

\* The horizon of the calls of a session, and how many calls it makes.
SessionYears == 1

MaxCalls == 3

\* The property of a session: a mortgage and a horizon of SessionYears.
SessionProperty ==
  { q \in PropertyParams :
      /\ q.mortgage_rate = Dec(65, 1000)
      /\ q.mortgage_years = SessionYears
      /\ q.hoa_monthly = FZero
      /\ q.years = SessionYears }

SessionReturns == {Dec(7, 100), Dec(10, 100)}

\* st.session_state.params_home of 2_Buy_and_Live.py: the property with the
\* rent and the stock fields of the sidebar.
PageHomeParams ==
  { q @@ [monthly_rent |-> F(2000), rent_increase_rate |-> Dec(3, 100),
          stock_return_rate |-> r, dividend_yield |-> Dec(2, 100)] :
      q \in SessionProperty, r \in SessionReturns }

\* st.session_state.params of 1_Buy_and_Rent.py.
PageRentalParams ==
  { q @@ [monthly_rent |-> Dec(185055, 100), vacancy_rate |-> Dec(5, 100),
          stock_return_rate |-> r, dividend_yield |-> Dec(2, 100)] :
      q \in SessionProperty, r \in SessionReturns }

SessionCoreRentalParams ==
  { q @@ [monthly_rent_income |-> F(2500), vacancy_rate |-> Dec(5, 100),
          stock_return_rate |-> r, dividend_yield |-> Dec(2, 100),
          dividend_tax_rate |-> Dec(15, 100)] :
      q \in SessionProperty, r \in SessionReturns }

\* The calls a session starts with.
SessionCalls ==
  { [fn |-> "simulate_homeownership", args |-> [params |-> q]] :
      q \in PageHomeParams }
  \cup { [fn |-> "simulate_rental_property", args |-> [params |-> q]] :
           q \in PageRentalParams }
  \cup { [fn |-> CoreRental, args |-> [params |-> q]] :
           q \in SessionCoreRentalParams }

\* 1_Buy_and_Rent.py line 185:
\* (rental_df['true_cost'] + rental_df['principal_payment']).tolist()
RentalMonthlyExpenses(rental_df) ==
  [k \in 1..Len(rental_df) |->
     FAdd(rental_df[k].true_cost, rental_df[k].principal_payment)]

\* 1_Buy_and_Rent.py lines 187-196: the stock side of the comparison.
PageOneCall(params, rental_result) ==
  [fn |-> "simulate_stock_investment",
   args |->
     [params |->
        [initial_investment |-> rental_result.summary.initial_payment,
         stock_return_rate |-> params.stock_return_rate,
         dividend_yield |-> params.dividend_yield,
         tax_bracket |-> params.tax_bracket,
         years |-> params.years],
      rental_monthly_expenses |->
        RentalMonthlyExpenses(rental_result.monthly_df)]]

\* 2_Buy_and_Live.py lines 194-207: the rent-and-invest side.
PageTwoCall(params, home_result) ==
  [fn |-> "simulate_rent_and_invest",
   args |->
     [params |->
        [initial_investment |-> home_result.summary.initial_payment,
         monthly_rent |-> params.monthly_rent,
         rent_increase_rate |-> params.rent_increase_rate,
         stock_return_rate |-> params.stock_return_rate,
         dividend_yield |-> params.dividend_yield,
         tax_bracket |-> params.tax_bracket,
         years |-> params.years],
      homeownership_true_monthly_costs |->
        Column(home_result.monthly_df, "true_monthly_cost")]]

\* What a page calls next with the result it has just got.
FollowUps ==
  IF pc = "done" /\ fn = "simulate_rental_property"
  THEN {PageOneCall(args.params, ret)}
  ELSE IF pc = "done" /\ fn = "simulate_homeownership"
       THEN {PageTwoCall(args.params, ret)}
       ELSE {}

\* The second call of a session is the page's follow-up or a rerun of the
\* simulator (with the same or with another stock return in the sidebar);
\* every later call repeats the first call or the one that has just finished.
Callable ==
  IF calls = <<>> THEN {c \in SessionCalls : c.fn = fn} \cup FollowUps
  ELSE {[fn |-> calls[1].fn, args |-> calls[1].args],
        [fn |-> fn, args |-> args]}

\* The finished call as the caller keeps it.
Finished ==
  [fn |-> fn, args |-> args, pc |-> pc, exc |-> exc, ret |-> ret]

\* A mutated caller: the list of monthly records outlives the call.
EnterCall_shared_list(c) ==
  /\ pc \in {"done", "raised"}
  /\ Len(calls) < MaxCalls - 1
  /\ calls' = Append(calls, Finished)
  /\ fn' = c.fn
  /\ args' = c.args
  /\ pc' = "call"
  /\ exc' = "none"
  /\ month' = 0
  /\ schedule' = <<>>
  /\ ret' = NoValue
  /\ monthly_payment' = NoValue
  /\ balance' = NoValue
  /\ portfolio_value' = NoValue
  /\ cumulative_rent' = NoValue
  /\ cumulative_dividends' = NoValue
  /\ cumulative_dividend_tax' = NoValue
  /\ annual_dividends' = NoValue
  /\ cumulative_unrecoverable' = NoValue
  /\ cumulative_operating_income' = NoValue
  /\ monthly_expenses' = NoValue
  /\ stock_portfolio_value' = NoValue
  /\ UNCHANGED <<interpreter, monthly_data>>

\* The caller keeps the result and makes the call c: a new frame, in which
\* no local is bound and every list is new.
EnterCall(c) ==
  /\ pc \in {"done", "raised"}
  /\ Len(calls) < MaxCalls - 1
  /\ calls' = Append(calls, Finished)
  /\ fn' = c.fn
  /\ args' = c.args
  /\ pc' = "call"
  /\ exc' = "none"
  /\ month' = 0
  /\ schedule' = <<>>
  /\ monthly_data' = <<>>
  /\ ret' = NoValue
  /\ monthly_payment' = NoValue
  /\ balance' = NoValue
  /\ portfolio_value' = NoValue
  /\ cumulative_rent' = NoValue
  /\ cumulative_dividends' = NoValue
  /\ cumulative_dividend_tax' = NoValue
  /\ annual_dividends' = NoValue
  /\ cumulative_unrecoverable' = NoValue
  /\ cumulative_operating_income' = NoValue
  /\ monthly_expenses' = NoValue
  /\ stock_portfolio_value' = NoValue
  /\ UNCHANGED interpreter

Call == \E c \in Callable : EnterCall(c)

InitPages ==
  /\ \E c \in SessionCalls : fn = c.fn /\ args = c.args
  /\ Fresh

NextPages ==
  \/ Call
  \/ HomeStart \/ HomeAmortize \/ HomeIter \/ HomeReturn
  \/ RentalStart \/ RentalAmortize \/ RentalIter \/ RentalReturn
  \/ RentInvestStart \/ RentInvestIter \/ RentInvestReturn
  \/ StockInvestStart \/ StockInvestIter \/ StockInvestReturn
  \/ CoreRentalStart \/ CoreRentalAmortize \/ CoreRentalIter \/ CoreRentalReturn

SpecPages == InitPages /\ [][NextPages]_vars

Init == InitAmort \/ InitTax \/ InitSim \/ InitCore \/ InitPages

Next == NextAmort \/ NextTax \/ NextSim \/ NextCore \/ NextPages

Spec == Init /\ [][Next]_vars

(***************************************************************************)
(* Properties.                                                             *)
(***************************************************************************)

\* Rounding allowed to an amortized total, in units in the last place of the
\* principal: the payment formula divides by (1 + r)^n - 1, which carries the
\* rounding of 1 + r magnified by about 1/r.
ToleranceUlps == 1024

\* One unit in the last place of x.
Ulp(x) == Norm(1, x.e)

\* |x - y| <= k units in the last place of ref.
WithinUlps(x, y, k, ref) == FLe(FAbs(FSub(x, y)), FMul(F(k), Ulp(ref)))

Simulators ==
  {"simulate_homeownership", "simulate_rent_and_invest",
   "simulate_rental_property", "simulate_stock_investment"}

RentInvestRun == fn = "simulate_rent_and_invest"

\* C1 as claimed: in simulate_rent_and_invest the recorded monthly
\* contribution plus the recorded rent equals the supplied true cost of
\* ownership of that month, in every month and also when the contribution is
\* negative.
C1_ContributionPlusRentIsCost ==
  RentInvestRun =>
    \A k \in 1..Len(monthly_data) :
      FAdd(monthly_data[k].monthly_contribution, monthly_data[k].monthly_rent)
        = args.homeownership_true_monthly_costs[k]

\* C1 as amended: in every month the recorded contribution is the supplied
\* true cost of that month minus the recorded rent as the subtraction rounds
\* it (negative when the rent is the larger), so contribution + rent equals
\* the cost to within two units in the last place of the larger of |cost|
\* and rent.
C1_ContributionPlusRentIsCostRounded ==
  RentInvestRun =>
    \A k \in 1..Len(monthly_data) :
      LET cost == args.homeownership_true_monthly_costs[k]
          rent == monthly_data[k].monthly_rent
      IN  /\ monthly_data[k].monthly_contribution = FSub(cost, rent)
          /\ WithinUlps(FAdd(monthly_data[k].monthly_contribution, rent), cost,
                        2, FMax(FAbs(cost), rent))

C1_Witness ==
  /\ RentInvestRun
  /\ pc = "done"
  /\ \E k \in 1..Len(monthly_data) :
       FAdd(monthly_data[k].monthly_contribution, monthly_data[k].monthly_rent)
         /= args.homeownership_true_monthly_costs[k]
  /\ \E k \in 1..Len(monthly_data) : monthly_data[k].monthly_contribution.m < 0

\* The cumulative fields of a simulator's records with their per-month
\* fields: those kept by an accumulator or summed over numpy floats, and
\* those summed over Python floats.
RunningFields(name) ==
  CASE name = "simulate_homeownership" ->
         { <<"cumulative_unrecoverable", "unrecoverable">>,
           <<"cumulative_tax_benefits", "monthly_tax_benefit">>,
           <<"cumulative_true_cost", "true_monthly_cost">> }
    [] name = "simulate_rental_property" ->
         { <<"cumulative_true_cost", "true_cost">> }
    [] name = "simulate_rent_and_invest" ->
         { <<"cumulative_rent", "monthly_rent">> }
    [] OTHER -> {}

ResummedFields(name) ==
  CASE name = "simulate_homeownership" -> {}
    [] OTHER -> { <<"cumulative_operating_income", "monthly_operating_income">> }

\* cumulative[k] == cumulative[k-1] + delta[k], and cumulative[1] == delta[1].
Recurrence(rows, pair, k) ==
  rows[k][pair[1]] =
    IF k = 1 THEN rows[1][pair[2]]
    ELSE FAdd(rows[k - 1][pair[1]], rows[k][pair[2]])

\* C2 as claimed: in every simulator's monthly records every cumulative
\* field obeys cumulative[1] == delta[1] and cumulative[k] ==
\* cumulative[k-1] + delta[k]: the re-summation of the list gives what a
\* running accumulator gives.
C2_CumulativeRecurrence ==
  fn \in Simulators =>
    \A pair \in RunningFields(fn) \cup ResummedFields(fn) :
      \A k \in 1..Len(monthly_data) : Recurrence(monthly_data, pair, k)

\* C2 as amended: the recurrence holds exactly for cumulative_rent,
\* cumulative_unrecoverable, cumulative_tax_benefits and the two
\* cumulative_true_cost fields, and for cumulative_operating_income when the
\* interpreter's sum adds left to right; when sum compensates (Python 3.12
\* and later) cumulative_operating_income[k] is sum(delta[1..k-1]) + delta[k]
\* and is within two units in the last place of cumulative[k-1] + delta[k].
C2_CumulativeRecurrenceRounded ==
  fn \in Simulators =>
    /\ \A pair \in RunningFields(fn) :
         \A k \in 1..Len(monthly_data) : Recurrence(monthly_data, pair, k)
    /\ \A pair \in ResummedFields(fn) :
         \A k \in 1..Len(monthly_data) :
           /\ sum_of_floats = "sequential" => Recurrence(monthly_data, pair, k)
           /\ k > 1 =>
                /\ monthly_data[k][pair[1]] =
                     FAdd(SumOfFloats(Column(SubSeq(monthly_data, 1, k - 1),
                                             pair[2])),
                          monthly_data[k][pair[2]])
                /\ WithinUlps(monthly_data[k][pair[1]],
                              FAdd(monthly_data[k - 1][pair[1]],
                                   monthly_data[k][pair[2]]),
                              2, monthly_data[k][pair[1]])

C2_Witness ==
  /\ fn = "simulate_rental_property"
  /\ pc = "done"
  /\ sum_of_floats = "compensated"
  /\ Len(monthly_data) = 2 * MonthsPerYear
  /\ \E k \in 2..Len(monthly_data) :
       ~Recurrence(monthly_data,
                   <<"cumulative_operating_income", "monthly_operating_income">>,
                   k)
  /\ monthly_data[2].cumulative_true_cost /= monthly_data[1].cumulative_true_cost

\* The call has years = 0 and, where there is a mortgage, a mortgage of at
\* least a year, so that the amortization schedule itself is built.
ZeroYearsRun ==
  /\ fn \in Simulators
  /\ args.params.years = 0
  /\ fn \in {"simulate_homeownership", "simulate_rental_property"} =>
       args.params.mortgage_years >= 1

\* C9: with years = 0 each simulator returns an empty monthly sequence and a
\* summary, and raises no exception.
C9_ZeroYearsGivesEmptyResult ==
  ZeroYearsRun =>
    /\ pc /= "raised"
    /\ exc = "none"
    /\ pc = "done" => ret.monthly_df = <<>>

AmortDone == fn = "calculate_amortization_schedule" /\ pc = "done"

\* C3: for a positive principal, an annual rate > 0 and a positive whole
\* number of years, the principal entries of the returned schedule add up to
\* the original principal, and the balance of its last entry is 0, both to
\* within rounding (ToleranceUlps units in the last place of the principal).
C3_AmortizationPaysOffPrincipal ==
  (AmortDone /\ args.annual_rate.m > 0 /\ args.years >= 1) =>
    /\ WithinUlps(FSum(Column(ret, "principal")), args.principal,
                  ToleranceUlps, args.principal)
    /\ WithinUlps(ret[Len(ret)].balance, FZero, ToleranceUlps, args.principal)

C3_Witness ==
  /\ AmortDone
  /\ args.annual_rate.m > 0
  /\ Len(ret) = 2 * MonthsPerYear
  /\ FSum(Column(ret, "principal")) /= args.principal

\* C4 as claimed: in every schedule entry principal + interest == payment,
\* and payment has the same value in every entry.
C4_PrincipalPlusInterestIsPayment ==
  \A i \in 1..Len(schedule) :
    /\ FAdd(schedule[i].principal, schedule[i].interest) = schedule[i].payment
    /\ schedule[i].payment = schedule[1].payment

\* C4 as amended: in every schedule entry payment is the one monthly payment
\* computed before the loop (also in the last entry, whose balance is
\* clamped), principal is payment - interest as the subtraction rounds it,
\* and principal + interest equals payment to within one unit in the last
\* place of payment.
C4_PrincipalPlusInterestIsPaymentRounded ==
  fn = "calculate_amortization_schedule" =>
    \A i \in 1..Len(schedule) :
      /\ schedule[i].payment = monthly_payment
      /\ schedule[i].principal = FSub(schedule[i].payment, schedule[i].interest)
      /\ WithinUlps(FAdd(schedule[i].principal, schedule[i].interest),
                    schedule[i].payment, 1, schedule[i].payment)

C4_Witness ==
  /\ AmortDone
  /\ balance.m < 0
  /\ ret[Len(ret)].balance = FZero
  /\ \E i \in 1..Len(ret) :
       FAdd(ret[i].principal, ret[i].interest) /= ret[i].payment

\* C5: for a positive principal and a rate >= 0 the recorded balance is never
\* negative and never increases: balance[k] <= balance[k-1] <= principal.
C5_BalanceNeverNegativeNeverIncreases ==
  fn = "calculate_amortization_schedule" =>
    \A i \in 1..Len(schedule) :
      /\ FLe(FZero, schedule[i].balance)
      /\ FLe(schedule[i].balance,
             IF i = 1 THEN args.principal ELSE schedule[i - 1].balance)

C5_Witness ==
  /\ AmortDone
  /\ Len(ret) >= 2
  /\ balance.m < 0
  /\ ret[Len(ret)].balance = FZero
  /\ FLt(ret[2].balance, ret[1].balance)

\* C6: for every positive whole number of years the schedule returned has
\* exactly years * 12 entries, whose month fields are 1, 2, ..., years * 12
\* in that order.
C6_ScheduleHasTwelveEntriesPerYear ==
  (AmortDone /\ args.years >= 1) =>
    /\ Len(ret) = args.years * 12
    /\ \A i \in 1..Len(ret) : ret[i].month = i

C6_Witness == AmortDone /\ args.years >= 2 /\ Len(ret) = 24

ZeroRateRun ==
  /\ fn = "calculate_amortization_schedule"
  /\ args.annual_rate = FZero
  /\ args.years >= 1
  /\ pc \in {"loop", "done"}

\* C7 as claimed: with annual_rate == 0 the payment is exactly P / (Y * 12),
\* every entry has interest 0 and principal equal to the payment, and the
\* balance after the last entry is 0.
C7_ZeroRateSchedule ==
  ZeroRateRun =>
    /\ monthly_payment = FDiv(args.principal, F(args.years * 12))
    /\ \A i \in 1..Len(schedule) :
         /\ schedule[i].interest = FZero
         /\ schedule[i].principal = schedule[i].payment
    /\ pc = "done" => ret[Len(ret)].balance = FZero

\* C7 as amended: with annual_rate == 0 the payment is exactly P / (Y * 12),
\* every entry has interest 0 and principal equal to the payment, and the
\* balance after the last entry is 0 up to the rounding of the Y * 12
\* subtractions: at most Y * 12 units in the last place of P.
C7_ZeroRateScheduleRounded ==
  ZeroRateRun =>
    /\ monthly_payment = FDiv(args.principal, F(args.years * 12))
    /\ \A i \in 1..Len(schedule) :
         /\ schedule[i].interest = FZero
         /\ schedule[i].principal = schedule[i].payment
    /\ pc = "done" =>
         WithinUlps(ret[Len(ret)].balance, FZero, args.years * 12, args.principal)

C7_Witness == ZeroRateRun /\ pc = "done" /\ ret[Len(ret)].balance /= FZero

TaxDone == fn = "calculate_capital_gains_tax" /\ pc = "done"

\* C8: calculate_capital_gains_tax returns 0 for every gain <= 0; for a
\* gain > 0 it returns gain * tax_rate_short when holding_period_years < 1
\* and gain * tax_rate_long when holding_period_years >= 1, so a holding
\* period of exactly one year is taxed at the long-term rate.
C8_CapitalGainsTax ==
  TaxDone =>
    IF ~FLt(FZero, args.gain) THEN ret = FZero
    ELSE IF FLt(args.holding_period_years, F(1))
         THEN ret = FMul(args.gain, args.tax_rate_short)
         ELSE ret = FMul(args.gain, args.tax_rate_long)

C8_Witness ==
  /\ TaxDone
  /\ args.holding_period_years = F(1)
  /\ FLt(FZero, args.gain)
  /\ ret = FMul(args.gain, args.tax_rate_long)
  /\ ret /= FMul(args.gain, args.tax_rate_short)

\* C10: with years = 0 calculate_amortization_schedule returns a schedule
\* with no entries and raises nothing, for annual_rate == 0 and for
\* annual_rate > 0.
C10_ZeroYearsGivesEmptySchedule ==
  (fn = "calculate_amortization_schedule" /\ args.years = 0) =>
    /\ pc /= "raised"
    /\ exc = "none"
    /\ pc = "done" => ret = <<>>

CoreSimulators == {CoreHome, CoreStock, CoreRental}

\* A call of a simulator of simulation.py with years = 0 and, where there is
\* a mortgage, a mortgage of at least a year.
CoreZeroYearsRun ==
  /\ fn \in CoreSimulators
  /\ args.params.years = 0
  /\ fn /= CoreStock => args.params.mortgage_years >= 1

\* The base the returns of a finished call are taken over.
InvestedBase ==
  IF fn = CoreStock THEN ret.summary.total_contributed
  ELSE ret.summary.total_invested

\* C11: in every simulator of simulation.py, when the invested base is <= 0
\* or years <= 0 the summary's roi and annualized_return are the sentinel 0,
\* and no fault reaches the caller.
C11_ZeroBaseOrHorizonGivesZeroReturns ==
  /\ CoreZeroYearsRun =>
       /\ pc /= "raised"
       /\ pc = "done" =>
            /\ ret.summary.roi = FZero
            /\ ret.summary.annualized_return = FZero
  /\ (fn \in CoreSimulators /\ pc = "done" /\ FLe(InvestedBase, FZero)) =>
       /\ ret.summary.roi = FZero
       /\ ret.summary.annualized_return = FZero

\* C12: for valid parameters with years >= 1 the ownership simulators of
\* simulation.py return, with the monthly records and the summary, a
\* monthly_expenses sequence of exactly years * 12 numbers, one per month.
C12_MonthlyExpensesPerMonth ==
  (/\ fn \in {CoreHome, CoreRental}
   /\ args.params.years >= 1
   /\ args.params.mortgage_years >= 1) =>
    /\ pc /= "raised"
    /\ pc = "done" =>
         /\ Len(ret.monthly_expenses) = args.params.years * 12
         /\ Len(ret.monthly_df) = args.params.years * 12
         /\ {"monthly_df", "summary"} \subseteq DOMAIN ret

\* The cash the rental investor has paid out in the month of a record:
\* mortgage payment, property tax, HOA, insurance and maintenance, less the
\* rental income and the tax benefit.
RentalNetOutflow(row) ==
  FSub(FSub(FAdd(FAdd(FAdd(FAdd(row.mortgage_payment, row.property_tax_monthly),
                           row.hoa),
                      row.insurance),
                 row.maintenance),
            row.rental_income),
       row.monthly_tax_benefit)

\* An initial payment and the flows of the months 1..k.
CashThrough(initial, flows, k) == FAdd(initial, FSum(SubSeq(flows, 1, k)))

\* The stock side of 1_Buy_and_Rent.py has returned, after the rental side.
PageOneCompared ==
  /\ pc = "done"
  /\ fn = "simulate_stock_investment"
  /\ calls # <<>>
  /\ calls[Len(calls)].fn = "simulate_rental_property"

\* C13: in the rental-versus-stock comparison of 1_Buy_and_Rent.py the cash
\* put into stocks through every month k (initial investment plus monthly
\* contributions) equals, up to rounding, the cash the rental investor paid
\* through k (initial payment plus net monthly outflows).
C13_EqualCashInBothStrategies ==
  PageOneCompared =>
    LET rental == calls[Len(calls)].ret
        paid == [i \in 1..Len(rental.monthly_df) |->
                   RentalNetOutflow(rental.monthly_df[i])]
        invested == Column(ret.monthly_df, "monthly_contribution")
    IN  \A k \in 1..Len(ret.monthly_df) :
          WithinUlps(CashThrough(args.params.initial_investment, invested, k),
                     CashThrough(rental.summary.initial_payment, paid, k),
                     ToleranceUlps, rental.summary.initial_payment)

\* The investment side of the parameters.
InvestmentFields == {"stock_return_rate", "dividend_yield", "dividend_tax_rate"}

\* The parameters without the investment side.
OwnershipInputs(p) == [f \in DOMAIN p \ InvestmentFields |-> p[f]]

\* The ownership simulators a page or a caller runs to completion.
OwnershipSimulators ==
  {"simulate_homeownership", "simulate_rental_property", CoreRental}

\* simulation.simulate_rental_property keeps a stock portfolio of its own
\* (lines 778-799, 857): these columns and summary entries come from it.
PortfolioColumns ==
  {"stock_portfolio_value", "monthly_dividend", "monthly_operating_income",
   "cumulative_operating_income", "net_worth"}

PortfolioSummary ==
  {"final_stock_portfolio", "net_proceeds", "total_operating_income", "roi",
   "annualized_return"}

Without(record, fields) == [f \in DOMAIN record \ fields |-> record[f]]

\* The part of an ownership result that the property alone decides.
OwnershipSide(name, result) ==
  IF name = CoreRental
  THEN [monthly_df |->
          [k \in 1..Len(result.monthly_df) |->
             Without(result.monthly_df[k], PortfolioColumns)],
        summary |-> Without(result.summary, PortfolioSummary),
        monthly_expenses |-> result.monthly_expenses]
  ELSE result

\* The running call has returned and the earlier call was the same ownership
\* simulator run on parameters that differ at most on the investment side.
SameOwnershipRun(earlier) ==
  /\ pc = "done"
  /\ earlier.pc = "done"
  /\ fn = earlier.fn
  /\ fn \in OwnershipSimulators
  /\ OwnershipInputs(args.params) = OwnershipInputs(earlier.args.params)

\* A result the caller holds is the same after any step of any simulator.
KeepsResults == \A i \in 1..Len(calls) : calls'[i] = calls[i]

\* C14 as stated: two runs of an ownership simulator whose parameters differ
\* only in stock_return_rate, dividend_yield and dividend_tax_rate return the
\* same monthly records, summary and monthly_expenses.
C14_OwnershipIgnoresInvestmentFields ==
  \A i \in 1..Len(calls) :
    SameOwnershipRun(calls[i]) => ret = calls[i].ret

\* C14 amended: the whole result of homeownership_simulation's and
\* rental_simulation's ownership simulators, and of
\* simulation.simulate_rental_property the monthly_expenses and every column
\* and summary entry outside its own stock portfolio, are the same for two
\* runs that differ only on the investment side; no later call changes a
\* result already produced.
C14_OwnershipSideIgnoresInvestmentFields ==
  /\ [](\A i \in 1..Len(calls) :
          SameOwnershipRun(calls[i]) =>
            OwnershipSide(fn, ret) = OwnershipSide(fn, calls[i].ret))
  /\ [][KeepsResults]_vars

\* Two finished runs of one ownership simulator with two stock returns.
C14_Witness ==
  /\ calls # <<>>
  /\ SameOwnershipRun(calls[1])
  /\ fn = "simulate_rental_property"
  /\ args.params.stock_return_rate # calls[1].args.params.stock_return_rate

\* The running call has returned and the earlier call was the same simulator
\* given the same params and the same contribution series.
SameRun(earlier) ==
  /\ pc = "done"
  /\ earlier.pc = "done"
  /\ fn = earlier.fn
  /\ args = earlier.args

\* Nothing is left of an earlier call when a call begins: no record, no
\* schedule, no bound local.
FreshFrame ==
  /\ month = 0
  /\ schedule = <<>>
  /\ monthly_data = <<>>
  /\ ret = NoValue
  /\ \A local \in {monthly_payment, balance, portfolio_value, cumulative_rent,
                    cumulative_dividends, cumulative_dividend_tax,
                    annual_dividends, cumulative_unrecoverable,
                    cumulative_operating_income, monthly_expenses,
                    stock_portfolio_value} : local = NoValue

\* While a simulator runs, the objects it was given stay as they were.
KeepsInputs == pc \notin {"done", "raised"} => UNCHANGED <<fn, args>>

C16_TotalTrueCostCarriesClosingCosts ==
  (fn = "simulate_homeownership" /\ pc = "done") =>
    WithinUlps(ret.summary.total_true_cost,
               FAdd(FAdd(FMul(args.params.purchase_price,
                              args.params.closing_costs_pct),
                         FSum(Column(ret.monthly_df, "true_monthly_cost"))),
                    ret.summary.selling_costs),
               ToleranceUlps, ret.summary.total_true_cost)

\* portfolio_value * (1 + stock_return_rate / 12) + monthly_contribution
Compounded(entering, p, monthly_contribution) ==
  FAdd(FMul(entering, FAdd(F(1), FDiv(p.stock_return_rate, F(12)))),
       monthly_contribution)

\* C17: in simulate_rent_and_invest and in rental_simulation's
\* simulate_stock_investment, with dividend_yield > 0 the value that enters
\* the compounding step of month k+1 is month k's portfolio_value plus month
\* k's monthly_dividend (up to rounding).
C17_DividendsAreReinvested ==
  (/\ fn \in {"simulate_rent_and_invest", "simulate_stock_investment"}
   /\ pc = "done"
   /\ FLt(FZero, args.params.dividend_yield)) =>
    \A k \in 1..(Len(ret.monthly_df) - 1) :
      WithinUlps(ret.monthly_df[k + 1].portfolio_value,
                 Compounded(FAdd(ret.monthly_df[k].portfolio_value,
                                 ret.monthly_df[k].monthly_dividend),
                            args.params,
                            ret.monthly_df[k + 1].monthly_contribution),
                 ToleranceUlps, ret.monthly_df[k + 1].portfolio_value)

\* C18: in simulate_rental_property (rental_simulation.py) every monthly
\* record's net_proceeds is property value - remaining mortgage - selling
\* costs (6% of the property value), up to rounding, and the summary's
\* final_net_proceeds is the net_proceeds of the last record.
C18_NetProceedsAreAfterSellingCosts ==
  (fn = "simulate_rental_property" /\ pc = "done") =>
    /\ \A k \in 1..Len(ret.monthly_df) :
         LET row == ret.monthly_df[k]
         IN  WithinUlps(row.net_proceeds,
                        FSub(FSub(row.property_value, row.remaining_balance),
                             FMul(row.property_value, Dec(6, 100))),
                        ToleranceUlps, row.property_value)
    /\ ret.summary.final_net_proceeds =
         ret.monthly_df[Len(ret.monthly_df)].net_proceeds

\* The contribution the docstring of simulation.simulate_stock_investment
\* gives for the month of a record (lines 176-180).
DocumentedContribution(a, row) ==
  IF a.rental_monthly_expenses.given /\ a.rental_income_monthly.given
  THEN FSub(a.rental_monthly_expenses.items[row.month],
            a.rental_income_monthly.items[row.month])
  ELSE FSub(a.homeownership_monthly_expenses.items[row.month], row.rent)

\* The series the contribution of a call is taken from, if there is one.
ContributionSeries(a) ==
  IF a.rental_monthly_expenses.given /\ a.rental_income_monthly.given
  THEN a.rental_monthly_expenses.items
  ELSE IF a.homeownership_monthly_expenses.given
       THEN a.homeownership_monthly_expenses.items
       ELSE <<>>

\* C19: in simulation.simulate_stock_investment the contribution of month k
\* is rental_monthly_expenses[k] - rental_income_monthly[k] when both rental
\* series are given, and homeownership_monthly_expenses[k] - rent[k] when
\* only the homeownership series is given.
C19_ContributionIsExpenseLessIncome ==
  fn = CoreStock =>
    \A k \in 1..Len(monthly_data) :
      k <= Len(ContributionSeries(args)) =>
        monthly_data[k].monthly_contribution =
          DocumentedContribution(args, monthly_data[k])

\* (interest_payment + monthly property tax) * tax_bracket for month `mon`.
DeductionBenefit(p, amortization, mon) ==
  FMul(FAdd(MortgageOf(amortization, mon).interest,
            MonthlyShare(PropertyValue(p, mon), p.property_tax_rate)),
       p.tax_bracket)

\* C20: in simulation.simulate_homeownership the tax benefit of a month is
\* (interest_payment + monthly property tax) * tax_bracket: after the first
\* pass of the loop the benefits accumulated (cumulative_operating_income,
\* 0 before the loop) are that of month 1.
C20_TaxBenefitIsDeductionsTimesBracket ==
  (fn = CoreHome /\ pc \notin {"call", "amortize"} /\ month = 1) =>
    cumulative_operating_income = DeductionBenefit(args.params, schedule, 1)

(***************************************************************************)
(* The ownership simulators together, and the investment simulators        *)
(* together.                                                               *)
(***************************************************************************)

InitOwnership == InitHome \/ InitRental \/ InitCoreHome \/ InitCoreRental

NextOwnership ==
  \/ HomeStart \/ HomeAmortize \/ HomeIter \/ HomeReturn
  \/ RentalStart \/ RentalAmortize \/ RentalIter \/ RentalReturn
  \/ CoreHomeStart \/ CoreHomeAmortize \/ CoreHomeIter \/ CoreHomeReturn
  \/ CoreRentalStart \/ CoreRentalAmortize \/ CoreRentalIter \/ CoreRentalReturn

SpecOwnership == InitOwnership /\ [][NextOwnership]_vars

InitInvestment == InitRentInvest \/ InitStock \/ InitCoreStock

NextInvestment ==
  \/ RentInvestStart \/ RentInvestIter \/ RentInvestReturn
  \/ StockInvestStart \/ StockInvestIter \/ StockInvestReturn
  \/ CoreStockStart \/ CoreStockIter \/ CoreStockReturn

SpecInvestment == InitInvestment /\ [][NextInvestment]_vars

\* closing_costs = purchase_price * closing_costs_pct
ClosingCosts(p) == FMul(p.purchase_price, p.closing_costs_pct)

\* interest + property tax + HOA + insurance + maintenance of a month, from
\* the columns of its record.
RecurringCosts(interest, property_tax, hoa, insurance, maintenance) ==
  FAdd(FAdd(FAdd(FAdd(interest, property_tax), hoa), insurance), maintenance)

\* The same for a record of the simulator `name`, whose columns have the
\* simulator's own names.
RecurringOf(name, row) ==
  IF name = CoreRental
  THEN RecurringCosts(row.interest_payment, row.property_tax, row.hoa,
                      row.insurance, row.maintenance)
  ELSE RecurringCosts(row.interest_payment, row.property_tax_monthly, row.hoa,
                      row.insurance, row.maintenance)

\* The unrecoverable cost a record of the simulator `name` carries.
UnrecoverableOf(name, row) ==
  IF name = CoreRental THEN row.unrecoverable_cost ELSE row.unrecoverable

\* The records of every ownership simulator that appends records.
RecordingOwnership ==
  fn \in {"simulate_homeownership", "simulate_rental_property", CoreRental}

\* Closing costs + the recurring costs of the records.
ClosingAndRecurring(p, name, rows) ==
  FAdd(ClosingCosts(p),
       FSum([k \in 1..Len(rows) |-> RecurringOf(name, rows[k])]))

RentalFigures(name, p, row) ==
  IF name = CoreRental
  THEN [monthly_rent |-> p.monthly_rent_income,
        rental_income |-> row.gross_rent_income,
        unrecoverable |-> row.unrecoverable_cost,
        monthly_tax_benefit |-> row.monthly_tax_benefit,
        true_cost |-> row.monthly_true_cost]
  ELSE [monthly_rent |-> p.monthly_rent,
        rental_income |-> row.rental_income,
        unrecoverable |-> row.unrecoverable,
        monthly_tax_benefit |-> row.monthly_tax_benefit,
        true_cost |-> row.true_cost]

\* rental income = monthly_rent * (1 - vacancy_rate), and true cost =
\* unrecoverable costs - rental income - monthly tax benefit up to rounding.
TrueCostAsDocumented(p, figures) ==
  /\ figures.rental_income =
       FMul(figures.monthly_rent, FSub(F(1), p.vacancy_rate))
  /\ WithinUlps(figures.true_cost,
                FSub(FSub(figures.unrecoverable, figures.rental_income),
                     figures.monthly_tax_benefit),
                ToleranceUlps, figures.unrecoverable)

\* C22: in simulate_rental_property of rental_simulation.py and of
\* simulation.py, every month's rental income is monthly_rent *
\* (1 - vacancy_rate) and every month's true cost is the unrecoverable costs
\* less the rental income less the monthly tax benefit.
C22_TrueCostIsCostsLessIncomeLessBenefit ==
  fn \in {"simulate_rental_property", CoreRental} =>
    \A k \in 1..Len(monthly_data) :
      TrueCostAsDocumented(args.params,
                           RentalFigures(fn, args.params, monthly_data[k]))

\* The four mortgage columns of a record.
MortgageColumns(row) ==
  [payment |-> row.mortgage_payment, principal |-> row.principal_payment,
   interest |-> row.interest_payment, balance |-> row.remaining_balance]

\* C23: when mortgage_years < years, every record of an ownership simulator
\* for a month after mortgage_years * 12 has a mortgage payment, principal,
\* interest and remaining balance of 0 (and an equity, where it is recorded,
\* equal to the property value), and every record for an earlier month
\* carries the schedule entry of its month.
C23_NoMortgageAfterItsTerm ==
  (RecordingOwnership /\ args.params.mortgage_years < args.params.years) =>
    \A k \in 1..Len(monthly_data) :
      IF k > args.params.mortgage_years * MonthsPerYear
      THEN /\ MortgageColumns(monthly_data[k]) =
                [payment |-> FZero, principal |-> FZero, interest |-> FZero,
                 balance |-> FZero]
           /\ "equity" \in DOMAIN monthly_data[k] =>
                monthly_data[k].equity = monthly_data[k].property_value
      ELSE /\ k <= Len(schedule)
           /\ MortgageColumns(monthly_data[k]) =
                [payment |-> schedule[k].payment,
                 principal |-> schedule[k].principal,
                 interest |-> schedule[k].interest,
                 balance |-> schedule[k].balance]

\* A record of each kind exists: within the term of a one-year mortgage and
\* after it.
C23_Witness ==
  /\ RecordingOwnership
  /\ args.params.mortgage_years = 1
  /\ Len(monthly_data) > MonthsPerYear
  /\ monthly_data[1].mortgage_payment.m > 0
  /\ "equity" \in DOMAIN monthly_data[1]

InvestmentSimulators ==
  {"simulate_rent_and_invest", "simulate_stock_investment", CoreStock}

\* The portfolio a month k of the records started from.
PortfolioBefore(p, rows, k) ==
  IF k = 1 THEN p.initial_investment ELSE rows[k - 1].portfolio_value

\* C24: in every investment simulator the portfolio before month 1 is
\* initial_investment, and every month's portfolio value is the one before
\* it * (1 + stock_return_rate / 12) + the month's contribution: the
\* contribution is added after compounding and earns nothing in its month.
C24_ContributionAfterCompounding ==
  fn \in InvestmentSimulators =>
    /\ (pc = "loop" /\ month = 0) =>
         portfolio_value = args.params.initial_investment
    /\ \A k \in 1..Len(monthly_data) :
         monthly_data[k].portfolio_value =
           Compounded(PortfolioBefore(args.params, monthly_data, k),
                      args.params, monthly_data[k].monthly_contribution)

\* Two months have been recorded, the second with a contribution.
C24_Witness ==
  /\ fn \in InvestmentSimulators
  /\ Len(monthly_data) >= 2
  /\ monthly_data[2].monthly_contribution.m /= 0
  /\ monthly_data[1].portfolio_value /= args.params.initial_investment

\* The rate the annual tax event charges: tax_bracket, which the parameters
\* of simulation.simulate_stock_investment do not have.
DividendTaxBracket(p) ==
  IF "tax_bracket" \in DOMAIN p THEN p.tax_bracket ELSE p.dividend_tax_rate

\* The monthly dividends of the simulated year that ends with month k.
DividendsOfYearEnding(rows, k) ==
  [i \in 1..MonthsPerYear |-> rows[k - MonthsPerYear + i].monthly_dividend]

\* C25: in the investment simulators the dividend tax recorded in month 12*j
\* is tax_bracket times the sum of the monthly dividends of months
\* 12*(j-1)+1..12*j and every other month's dividend tax is 0; the tax is
\* added to cumulative_dividend_tax and annual_dividends is 0 after the
\* month of the tax.
C25_DividendTaxOnlyInTwelfthMonth ==
  fn \in InvestmentSimulators =>
    /\ \A k \in 1..Len(monthly_data) :
         monthly_data[k].dividend_tax =
           IF k % MonthsPerYear = 0
           THEN FMul(FSum(DividendsOfYearEnding(monthly_data, k)),
                     DividendTaxBracket(args.params))
           ELSE FZero
    /\ (fn /= CoreStock /\ pc = "loop") =>
         /\ cumulative_dividend_tax =
              FSum(Column(monthly_data, "dividend_tax"))
         /\ (month > 0 /\ month % MonthsPerYear = 0) =>
              annual_dividends = FZero

\* C26: in simulate_homeownership of homeownership_simulation.py every
\* monthly record has equity = property_value - remaining_balance and
\* net_proceeds = property_value - remaining_balance - property_value *
\* selling_cost_pct, and the summary's final_net_proceeds and final_equity
\* are the net_proceeds and the equity of the last record.
C26_EquityAndNetProceeds ==
  fn = "simulate_homeownership" =>
    /\ \A k \in 1..Len(monthly_data) :
         LET row == monthly_data[k]
         IN  /\ row.equity = FSub(row.property_value, row.remaining_balance)
             /\ row.net_proceeds =
                  FSub(FSub(row.property_value, row.remaining_balance),
                       FMul(row.property_value, args.params.selling_cost_pct))
    /\ pc = "done" =>
         /\ ret.summary.final_net_proceeds =
              ret.monthly_df[Len(ret.monthly_df)].net_proceeds
         /\ ret.summary.final_equity =
              ret.monthly_df[Len(ret.monthly_df)].equity

\* A run has finished whose last record has a mortgage balance and selling
\* costs.
C26_Witness ==
  /\ fn = "simulate_homeownership"
  /\ pc = "done"
  /\ ret.monthly_df[Len(ret.monthly_df)].remaining_balance.m > 0
  /\ ret.summary.final_net_proceeds /= ret.summary.final_equity

\* C27: in every ownership simulator the selling costs reported at the end
\* of the horizon are final_property_value * selling_cost_pct, with the
\* scenario's selling_cost_pct and the property value of the last monthly
\* record.
C27_SellingCostsUseTheParameter ==
  (RecordingOwnership /\ pc = "done") =>
    ret.summary.selling_costs =
      FMul(ret.monthly_df[Len(ret.monthly_df)].property_value,
           args.params.selling_cost_pct)

\* The same stated of the simulators whose summary reads the parameter.
C27_SellingCostsWhereRead ==
  (fn \in {"simulate_homeownership", CoreRental} /\ pc = "done") =>
    ret.summary.selling_costs =
      FMul(ret.monthly_df[Len(ret.monthly_df)].property_value,
           args.params.selling_cost_pct)

(***************************************************************************)
(* core/visualization.py: create_annual_summary, called with the monthly   *)
(* records a simulator returned.                                           *)
(***************************************************************************)

\* The columns that are not summed (line 379).
NotSummed ==
  {"month", "year", "property_value", "equity", "remaining_balance", "portfolio_value"}

\* The columns whose end-of-year value is kept (line 383).
EndOfYear ==
  {"property_value", "equity", "remaining_balance", "portfolio_value"}

\* float -> int of astype(int): the fraction is cut off.
Truncated(x) ==
  IF x.e >= 0 THEN x.m * 2^(x.e)
  ELSE IF -(x.e) >= MantBits THEN 0
  ELSE Sign(x.m) * (Abs(x.m) \div 2^(-(x.e)))

\* monthly_df['year'].astype(int) of one record.
YearKey(dtype, row) ==
  IF dtype = "float64" THEN Truncated(row.year) ELSE row.year

\* The group keys in the order groupby gives them: sorted.
RECURSIVE SortedKeys(_)
SortedKeys(keys) ==
  IF keys = {} THEN <<>>
  ELSE LET least == CHOOSE k \in keys : \A j \in keys : k <= j
       IN  <<least>> \o SortedKeys(keys \ {least})

\* One step of the compensated sum pandas keeps per group.
KahanStep(st, val) ==
  LET y == FSub(val, st.compensation)
      t == FAdd(st.sumx, y)
  IN  [sumx |-> t, compensation |-> FSub(FSub(t, st.sumx), y)]

\* The compensated sum of xs[k], xs[k + 1], ... added to st.
RECURSIVE KahanFrom(_, _, _)
KahanFrom(st, xs, k) ==
  IF k > Len(xs) THEN st ELSE KahanFrom(KahanStep(st, xs[k]), xs, k + 1)

\* The 'sum' of a group's column: added left to right, with or without the
\* compensation term, as the installed pandas does.
GroupSum(group_sum, xs) ==
  IF group_sum = "compensated"
  THEN KahanFrom([sumx |-> FZero, compensation |-> FZero], xs, 1).sumx
  ELSE FSum(xs)

\* A mutated summary: the level columns are taken from the first month.
AnnualRow_first_month(key, group, group_sum) ==
  LET columns == DOMAIN group[1]
      ends    == EndOfYear \cap columns
  IN  [c \in {"year"} |-> key]
      @@ [c \in columns \ NotSummed |->
            GroupSum(group_sum, [i \in 1..Len(group) |-> group[i][c]])]
      @@ [c \in {e \o "_end" : e \in ends} |->
            group[1][CHOOSE e \in ends : e \o "_end" = c]]

\* One row of the annual frame: the key, the sums and the end-of-year values
\* of the records of a group.
AnnualRow(key, group, group_sum) ==
  LET columns == DOMAIN group[1]
      ends    == EndOfYear \cap columns
  IN  [c \in {"year"} |-> key]
      @@ [c \in columns \ NotSummed |->
            GroupSum(group_sum, [i \in 1..Len(group) |-> group[i][c]])]
      @@ [c \in {e \o "_end" : e \in ends} |->
            group[Len(group)][CHOOSE e \in ends : e \o "_end" = c]]

\* create_annual_summary(monthly_df), lines 373-387.  The records of a
\* simulator carry a 'year' column, so line 376 has nothing to add; a frame
\* without columns has no 'month' to compute it from.
CreateAnnualSummary(monthly_df, year_dtype, group_sum) ==
  IF Len(monthly_df) = 0 THEN Raise("KeyError")
  ELSE LET keys   == {YearKey(year_dtype, monthly_df[i]) : i \in 1..Len(monthly_df)}
           sorted == SortedKeys(keys)
       IN  Return([g \in 1..Len(sorted) |->
                     AnnualRow(sorted[g],
                               SelectSeq(monthly_df,
                                         LAMBDA row : YearKey(year_dtype, row) = sorted[g]),
                               group_sum)])

\* The caller hands the records of the finished simulator to
\* create_annual_summary; simulation.py records year as a float.
AnnualCall ==
  /\ pc = "done"
  /\ fn /= "create_annual_summary"
  /\ calls' = Append(calls, Finished)
  /\ fn' = "create_annual_summary"
  /\ args' = [monthly_df |-> ret.monthly_df,
              year_dtype |-> IF fn \in {CoreHome, CoreStock, CoreRental}
                             THEN "float64" ELSE "int64"]
  /\ pc' = "call"
  /\ ret' = NoValue
  /\ UNCHANGED <<interpreter, coreLocals, exc, month, amortLocals, schedule, monthly_data, stockLocals>>

AnnualReturn ==
  /\ pc = "call"
  /\ fn = "create_annual_summary"
  /\ \E group_sum \in {"sequential", "compensated"} :
       Finish(CreateAnnualSummary(args.monthly_df, args.year_dtype, group_sum))

InitAnnual == InitSim \/ InitCoreStock

NextAnnual ==
  \/ NextSim
  \/ CoreStockStart \/ CoreStockIter \/ CoreStockReturn
  \/ AnnualCall
  \/ AnnualReturn

SpecAnnual == InitAnnual /\ [][NextAnnual]_vars

\* The records of the simulated year g (g = 1 is the first): those with
\* floor((month - 1) / 12) = g - 1.
MonthsOfYear(rows, g) ==
  SelectSeq(rows, LAMBDA row : (row.month - 1) \div 12 = g - 1)

\* The largest magnitude among xs.
RECURSIVE LargestOf(_, _)
LargestOf(xs, k) ==
  IF k = 0 THEN FZero ELSE FMax(FAbs(xs[k]), LargestOf(xs, k - 1))

\* C28: create_annual_summary groups the monthly records of a simulator by
\* floor((month - 1) / 12), each group being the 12 months of one simulated
\* year; the row of a group holds the sum of every column that is not a
\* level (up to the rounding of the additions) and, for property_value,
\* equity, remaining_balance and portfolio_value, the value of the group's
\* last month.
C28_AnnualSummaryByYear ==
  (fn = "create_annual_summary" /\ pc = "done") =>
    LET rows == args.monthly_df
    IN  /\ Len(ret) * 12 = Len(rows)
        /\ \A g \in 1..Len(ret) :
             LET group == MonthsOfYear(rows, g)
             IN  /\ Len(group) = 12
                 /\ \A i \in 1..12 : group[i].month = 12 * (g - 1) + i
                 /\ \A c \in DOMAIN rows[1] \ NotSummed :
                      LET xs == [i \in 1..12 |-> group[i][c]]
                      IN  WithinUlps(ret[g][c], FSum(xs), ToleranceUlps,
                                     LargestOf(xs, 12))
                 /\ \A c \in EndOfYear \cap DOMAIN rows[1] :
                      ret[g][c \o "_end"] = group[12][c]

\* A frame of two years with a mortgage balance has been summarised, and the
\* balance at the end of the first year is not that of its first month.
C28_Witness ==
  /\ fn = "create_annual_summary"
  /\ pc = "done"
  /\ Len(ret) = 2
  /\ "remaining_balance" \in DOMAIN args.monthly_df[1]
  /\ ret[1].remaining_balance_end /= args.monthly_df[1].remaining_balance
  /\ ret[1].remaining_balance_end = args.monthly_df[12].remaining_balance

\* The simulators that keep the dividend accumulators of the annual tax.
AnnualTaxSimulators == {"simulate_rent_and_invest", "simulate_stock_investment"}

\* The monthly dividends recorded after month `since`.
DividendsSince(rows, since) ==
  [i \in 1..(Len(rows) - since) |-> rows[since + i].monthly_dividend]

\* The dividend accumulators after the months recorded so far.
DividendAccumulators ==
  (fn \in AnnualTaxSimulators /\ pc /= "call") =>
    LET k == Len(monthly_data)
    IN  /\ month = k
        /\ cumulative_dividends = FSum(DividendsSince(monthly_data, 0))
        /\ annual_dividends =
             FSum(DividendsSince(monthly_data, k - (k % MonthsPerYear)))
        /\ WithinUlps(cumulative_dividend_tax,
                      FMul(args.params.tax_bracket,
                           FSub(cumulative_dividends, annual_dividends)),
                      ToleranceUlps, cumulative_dividends)

\* A month that changes the cumulative dividend tax is a multiple of 12.
TaxChangesAtYearEnd ==
  (fn \in AnnualTaxSimulators /\ pc = "loop" /\ pc' = "loop") =>
    (cumulative_dividend_tax' /= cumulative_dividend_tax =>
       month' % MonthsPerYear = 0)

\* C29: in simulate_rent_and_invest and simulate_stock_investment of
\* rental_simulation.py, after every month k, cumulative_dividends is the sum
\* of the monthly dividends of months 1..k, annual_dividends is the sum of
\* the monthly dividends since the last multiple of 12, and
\* cumulative_dividend_tax is tax_bracket * (cumulative_dividends -
\* annual_dividends) up to rounding; cumulative_dividend_tax changes only in
\* months that are multiples of 12.
C29_DividendAccumulators ==
  /\ []DividendAccumulators
  /\ [][TaxChangesAtYearEnd]_vars

\* A second year is under way: tax has been charged on the first year's
\* dividends and the second year's are accumulating.
C29_Witness ==
  /\ fn \in AnnualTaxSimulators
  /\ pc = "loop"
  /\ month > MonthsPerYear
  /\ month % MonthsPerYear /= 0
  /\ cumulative_dividend_tax.m > 0
  /\ annual_dividends.m > 0
  /\ annual_dividends /= cumulative_dividends

\* The statement of C29 with the product taken as a float equality.
C29_TaxIsBracketTimesTaxedDividends ==
  (fn \in AnnualTaxSimulators /\ pc /= "call") =>
    cumulative_dividend_tax =
      FMul(args.params.tax_bracket,
           FSub(cumulative_dividends, annual_dividends))

\* The cumulative cost before month k of the records.
CumulativeCostBefore(rows, k) ==
  IF k = 1 THEN FZero ELSE rows[k - 1].cumulative_cost

\* C30: in simulate_rent_and_invest, whatever cost series is supplied (also
\* one that makes the contributions negative because the rent exceeds the
\* cost of owning), the recorded dividend_tax is never negative and
\* cumulative_cost (cumulative rent + cumulative dividend tax) never
\* decreases from one month to the next.
C30_TaxAndCostNeverGoDown ==
  fn = "simulate_rent_and_invest" =>
    \A k \in 1..Len(monthly_data) :
      /\ monthly_data[k].dividend_tax.m >= 0
      /\ FLe(CumulativeCostBefore(monthly_data, k),
             monthly_data[k].cumulative_cost)
====
